---- MODULE Spec2Model ----
(***************************************************************************)
(* Board games rule engine (Gomoku, Go, Reversi) and game driver of        *)
(* src/HW2.cpp (second iteration) and src/HW1.cpp (first iteration).       *)
(* A Board value is a record [size, grid]; grid[x][y] is the piece at (x, y). *)
(***************************************************************************)
EXTENDS Integers, Sequences, FiniteSets, TLC

\* ---------------------------------------------------------------- enums
EMPTY == 0
BLACK == 1
WHITE == 2
Piece == {EMPTY, BLACK, WHITE}
Colour == {BLACK, WHITE}

GOMOKU == 1
GO == 2
REVERSI == 3

PLAYING == "PLAYING"
BLACK_WIN == "BLACK_WIN"
WHITE_WIN == "WHITE_WIN"
DRAW == "DRAW"

\* Point sentinels returned by Player::getMove
PassXY == -1
UndoXY == -2
SaveXY == -3
QuitXY == -4

getOpponent(p) == IF p = BLACK THEN WHITE ELSE BLACK

\* ---------------------------------------------------------------- bounds
GoSize == 3
GomokuSize == 5
ReversiSize == 4
MaxGoStones == 5
ProbeMoves == 1
ScenarioMoves == 2
ReversiMoves == 5
MaxPlies == 6
GoGameSize == 2
MaxIterations == 4
MaxEmpty == 2
MaxFileSize == 3
MaxBoardSize == 2
PlayoutIterations == 1
EmptyStartMoves == 4
SessionSnapshots == 2
RandomPlies == 2

\* ---------------------------------------------------------------- Board
Cells(sz) == (0 .. sz - 1) \X (0 .. sz - 1)

NewBoard(sz) == [size |-> sz, grid |-> [x \in 0 .. sz - 1 |-> [y \in 0 .. sz - 1 |-> EMPTY]]]

isValidBounds(b, x, y) == x >= 0 /\ x < b.size /\ y >= 0 /\ y < b.size

getPiece(b, x, y) == IF ~isValidBounds(b, x, y) THEN EMPTY ELSE b.grid[x][y]

\* mutant: the indices of the write are exchanged
setPieceTransposed(b, x, y, p) ==
    IF isValidBounds(b, x, y) THEN [b EXCEPT !.grid[y][x] = p] ELSE b

setPiece(b, x, y, p) ==
    IF isValidBounds(b, x, y) THEN [b EXCEPT !.grid[x][y] = p] ELSE b

countPieces(b, type) == Cardinality({c \in Cells(b.size) : b.grid[c[1]][c[2]] = type})

\* the characters of the decimal digits 0 .. 9
DigitChars == <<"0", "1", "2", "3", "4", "5", "6", "7", "8", "9">>

DigitValue(ch) == CHOOSE d \in 0 .. 9 : DigitChars[d + 1] = ch

\* operator<< of an int: its decimal digits
RECURSIVE Digits(_)
Digits(n) ==
    IF n < 10 THEN <<DigitChars[n + 1]>> ELSE Digits(n \div 10) \o <<DigitChars[(n % 10) + 1]>>

\* ss << grid[i][j] << " " for the cells from idx on, in the order of the loops i, j
RECURSIVE SerializeCells(_, _)
SerializeCells(b, idx) ==
    IF idx >= b.size * b.size THEN <<>>
    ELSE Digits(b.grid[idx \div b.size][idx % b.size]) \o <<" ">> \o SerializeCells(b, idx + 1)

\* Board::serialize
serialize(b) == Digits(b.size) \o <<" ">> \o SerializeCells(b, 0)

\* operator>> of an int: skip blanks, then read digits; rd = [value, pos, any]
RECURSIVE ReadDigits(_, _)
ReadDigits(txt, rd) ==
    IF rd.pos > Len(txt) \/ txt[rd.pos] = " " THEN rd
    ELSE ReadDigits(txt, [value |-> rd.value * 10 + DigitValue(txt[rd.pos]), pos |-> rd.pos + 1,
                          any |-> TRUE])

RECURSIVE SkipBlanks(_, _)
SkipBlanks(txt, pos) ==
    IF pos <= Len(txt) /\ txt[pos] = " " THEN SkipBlanks(txt, pos + 1) ELSE pos

ReadInt(txt, pos) == ReadDigits(txt, [value |-> 0, pos |-> SkipBlanks(txt, pos), any |-> FALSE])

\* grid.resize(size, vector<PieceType>(size)): rows that exist keep their length,
\* missing rows are added with size cells, surplus rows are dropped
ResizeRows(grid, size) ==
    [x \in 0 .. size - 1 |->
        IF x \in DOMAIN grid THEN grid[x] ELSE [y \in 0 .. size - 1 |-> EMPTY]]

\* values an int that was never assigned is sampled from
UninitInts == 0 .. 3

\* the loops of deserialize from cell idx on; st = [grid, pos, oob, temp]. A read that
\* finds no digits leaves temp as it was. grid[i][j] with j beyond the row is undefined
\* behaviour: the value lands behind the row and is read back from there (landed) or it
\* does not
RECURSIVE DeserializeCells(_, _, _, _, _)
DeserializeCells(txt, size, st, idx, landed) ==
    IF idx >= size * size THEN st
    ELSE LET i == idx \div size
             j == idx % size
             rd == ReadInt(txt, st.pos)
             temp == IF rd.any THEN rd.value ELSE st.temp
             row == st.grid[i]
         IN  IF j \in DOMAIN row
             THEN DeserializeCells(txt, size,
                      [st EXCEPT !.grid[i][j] = temp, !.pos = rd.pos, !.temp = temp],
                      idx + 1, landed)
             ELSE DeserializeCells(txt, size,
                      [grid |-> IF landed
                                THEN [st.grid EXCEPT ![i] =
                                         [y \in 0 .. j |-> IF y = j THEN temp ELSE row[y]]]
                                ELSE st.grid,
                       pos |-> rd.pos, oob |-> TRUE, temp |-> temp],
                      idx + 1, landed)

\* Board::deserialize on the board b; result [board, oob]. A failed read of size leaves
\* the member as it was; temp0 is the value of the unassigned int temp
deserialize(b, txt, landed, temp0) ==
    LET rd == ReadInt(txt, 1)
        size == IF rd.any THEN rd.value ELSE b.size
        st == DeserializeCells(txt, size,
                  [grid |-> ResizeRows(b.grid, size), pos |-> rd.pos, oob |-> FALSE,
                   temp |-> temp0],
                  0, landed)
    IN  [board |-> [size |-> size, grid |-> st.grid], oob |-> st.oob]

\* ---------------------------------------------------------------- Gomoku
GomokuIsValidMove(b, x, y, player) ==
    [ret |-> isValidBounds(b, x, y) /\ getPiece(b, x, y) = EMPTY, board |-> b]

GomokuMakeMove(b, x, y, player) == setPiece(b, x, y, player)

\* directions[4][2] = {{1, 0}, {0, 1}, {1, 1}, {1, -1}}
GomokuDirections == << <<1, 0>>, <<0, 1>>, <<1, 1>>, <<1, -1>> >>

\* for (i = 1; i < 5; ++i) if (piece at distance i == current) count++; else break;
RECURSIVE RunFrom(_, _, _, _, _, _, _)
RunFrom(b, x, y, dx, dy, current, i) ==
    IF i < 5 /\ getPiece(b, x + i * dx, y + i * dy) = current
    THEN 1 + RunFrom(b, x, y, dx, dy, current, i + 1)
    ELSE 0

\* mutant: only the forward half-line is scanned
AxisCountForwardOnly(b, x, y, dir, current) ==
    1 + RunFrom(b, x, y, dir[1], dir[2], current, 1)

AxisCount(b, x, y, dir, current) ==
    1 + RunFrom(b, x, y, dir[1], dir[2], current, 1)
      + RunFrom(b, x, y, -dir[1], -dir[2], current, 1)

GomokuCheckWin(b, x, y) ==
    IF x = -1 /\ y = -1 THEN PLAYING
    ELSE LET current == getPiece(b, x, y)
         IN  IF current = EMPTY THEN PLAYING
             ELSE IF \E k \in 1 .. 4 : AxisCount(b, x, y, GomokuDirections[k], current) >= 5
                  THEN (IF current = BLACK THEN BLACK_WIN ELSE WHITE_WIN)
                  ELSE IF \E c \in Cells(b.size) : getPiece(b, c[1], c[2]) = EMPTY
                       THEN PLAYING
                       ELSE DRAW

\* ---------------------------------------------------------------- Go
\* dx[] = {0, 0, 1, -1}; dy[] = {1, -1, 0, 0}
Dirs4 == << <<0, 1>>, <<0, -1>>, <<1, 0>>, <<-1, 0>> >>

\* mutant: an empty cell is not marked, it is counted from every stone next to it
RECURSIVE countLibertiesDFSRecount(_, _, _, _, _)
countLibertiesDFSRecount(b, st, x, y, color) ==
    IF ~isValidBounds(b, x, y) THEN st
    ELSE IF <<x, y>> \in st.visited THEN st
    ELSE LET p == getPiece(b, x, y)
         IN  IF p = EMPTY THEN [st EXCEPT !.lib = @ + 1]
             ELSE LET st1 == [st EXCEPT !.visited = @ \cup {<<x, y>>}]
                  IN  IF p # color THEN st1
                      ELSE LET st2 == [st1 EXCEPT !.group = Append(@, <<x, y>>)]
                               s1 == countLibertiesDFSRecount(b, st2, x, y + 1, color)
                               s2 == countLibertiesDFSRecount(b, s1, x, y - 1, color)
                               s3 == countLibertiesDFSRecount(b, s2, x + 1, y, color)
                           IN  countLibertiesDFSRecount(b, s3, x - 1, y, color)

\* st = [visited : set of cells, group : sequence of cells, lib : tally]
RECURSIVE countLibertiesDFS(_, _, _, _, _)
countLibertiesDFS(b, st, x, y, color) ==
    IF ~isValidBounds(b, x, y) THEN st
    ELSE IF <<x, y>> \in st.visited THEN st
    ELSE LET st1 == [st EXCEPT !.visited = @ \cup {<<x, y>>}]
             p == getPiece(b, x, y)
         IN  IF p = EMPTY THEN [st1 EXCEPT !.lib = @ + 1]
             ELSE IF p # color THEN st1
             ELSE LET st2 == [st1 EXCEPT !.group = Append(@, <<x, y>>)]
                      s1 == countLibertiesDFS(b, st2, x + Dirs4[1][1], y + Dirs4[1][2], color)
                      s2 == countLibertiesDFS(b, s1, x + Dirs4[2][1], y + Dirs4[2][2], color)
                      s3 == countLibertiesDFS(b, s2, x + Dirs4[3][1], y + Dirs4[3][2], color)
                  IN  countLibertiesDFS(b, s3, x + Dirs4[4][1], y + Dirs4[4][2], color)

\* visited[][] is cleared over [0,size) x [0,size) before every discovery
getLiberties(b, x, y, color) ==
    countLibertiesDFS(b, [visited |-> {}, group |-> <<>>, lib |-> 0], x, y, color)

\* mutant: the marks of earlier discoveries are kept
ClearVisitedNever(marked, s) == marked

\* for (i < s) for (j < s) visited[i][j] = false
ClearVisited(marked, s) == marked \ ((0 .. s - 1) \X (0 .. s - 1))

\* getLiberties on a rule object whose visited array holds the marks in marked
getLibertiesAfter(b, marked, x, y, color) ==
    countLibertiesDFS(b, [visited |-> ClearVisited(marked, b.size), group |-> <<>>, lib |-> 0],
                      x, y, color)

\* mutant: only the seed stone of a dead group is taken off
ClearGroupSeedOnly(b, group, k) ==
    IF Len(group) = 0 THEN b ELSE setPiece(b, group[1][1], group[1][2], EMPTY)

RECURSIVE ClearGroup(_, _, _)
ClearGroup(b, group, k) ==
    IF k > Len(group) THEN b
    ELSE ClearGroup(setPiece(b, group[k][1], group[k][2], EMPTY), group, k + 1)

RECURSIVE removeDeadStonesFrom(_, _, _, _, _)
removeDeadStonesFrom(b, x, y, opponent, i) ==
    IF i > 4 THEN b
    ELSE LET nx == x + Dirs4[i][1]
             ny == y + Dirs4[i][2]
         IN  IF isValidBounds(b, nx, ny) /\ getPiece(b, nx, ny) = opponent
             THEN LET r == getLiberties(b, nx, ny, opponent)
                  IN  removeDeadStonesFrom(
                          IF r.lib = 0 THEN ClearGroup(b, r.group, 1) ELSE b,
                          x, y, opponent, i + 1)
             ELSE removeDeadStonesFrom(b, x, y, opponent, i + 1)

\* mutant: captured groups stay on the board
removeDeadStonesNever(b, x, y, opponent) == b

removeDeadStones(b, x, y, opponent) == removeDeadStonesFrom(b, x, y, opponent, 1)

\* mutant: the capture test never fires, every move goes to the suicide test
GoCapturesNever(b, x, y, opponent) == FALSE

\* the 'captures' flag of isValidMove, evaluated on the board with the trial stone
GoCaptures(b, x, y, opponent) ==
    \E i \in 1 .. 4 :
        LET nx == x + Dirs4[i][1]
            ny == y + Dirs4[i][2]
        IN  /\ isValidBounds(b, nx, ny)
            /\ getPiece(b, nx, ny) = opponent
            /\ getLiberties(b, nx, ny, opponent).lib = 0

\* mutant: the trial stone is left on the board when the move is found to capture
GoIsValidMoveKeepsTrial(b, x, y, player) ==
    IF ~isValidBounds(b, x, y) \/ getPiece(b, x, y) # EMPTY
    THEN [ret |-> FALSE, board |-> b]
    ELSE LET trial == setPiece(b, x, y, player)
             captures == GoCaptures(trial, x, y, getOpponent(player))
             suicide == IF ~captures
                        THEN getLiberties(trial, x, y, player).lib = 0
                        ELSE FALSE
         IN  [ret |-> ~suicide,
              board |-> IF captures THEN trial ELSE setPiece(trial, x, y, EMPTY)]

\* result: [ret |-> BOOLEAN, board |-> the board on return]
GoIsValidMove(b, x, y, player) ==
    IF ~isValidBounds(b, x, y) \/ getPiece(b, x, y) # EMPTY
    THEN [ret |-> FALSE, board |-> b]
    ELSE LET trial == setPiece(b, x, y, player)
             captures == GoCaptures(trial, x, y, getOpponent(player))
             suicide == IF ~captures
                        THEN getLiberties(trial, x, y, player).lib = 0
                        ELSE FALSE
         IN  [ret |-> ~suicide, board |-> setPiece(trial, x, y, EMPTY)]

\* mutant: the stone is placed and no dead neighbour is taken off
GoMakeMoveKeepsDead(b, x, y, player) ==
    IF x = -1 /\ y = -1 THEN b ELSE setPiece(b, x, y, player)

GoMakeMove(b, x, y, player) ==
    IF x = -1 /\ y = -1 THEN b
    ELSE removeDeadStones(setPiece(b, x, y, player), x, y, getOpponent(player))

\* mutant: every Go move is reported as ending the game
GoCheckWinDraw(b, x, y) == DRAW

GoCheckWin(b, x, y) == PLAYING

\* ---------------------------------------------------------------- Reversi
\* dx[] = {0, 0, 1, -1, 1, 1, -1, -1}; dy[] = {1, -1, 0, 0, 1, -1, 1, -1}
Dirs8 == << <<0, 1>>, <<0, -1>>, <<1, 0>>, <<-1, 0>>,
            <<1, 1>>, <<1, -1>>, <<-1, 1>>, <<-1, -1>> >>

\* mutant: a player's stone right next to the cell already counts as a bracket
BracketIndexNoRunNeeded(b, x, y, dx, dy, player, i, hasOpponent) ==
    IF getPiece(b, x + dx, y + dy) = player /\ isValidBounds(b, x + dx, y + dy) THEN 1 ELSE 0

\* the while(true) walk of checkDirection: the index i of the bracketing stone of
\* 'player', or 0 where the code returns false
RECURSIVE BracketIndex(_, _, _, _, _, _, _, _)
BracketIndex(b, x, y, dx, dy, player, i, hasOpponent) ==
    LET nx == x + i * dx
        ny == y + i * dy
        p == getPiece(b, nx, ny)
    IN  IF ~isValidBounds(b, nx, ny) THEN 0
        ELSE IF p = EMPTY THEN 0
        ELSE IF p = getOpponent(player)
             THEN BracketIndex(b, x, y, dx, dy, player, i + 1, TRUE)
             ELSE IF hasOpponent THEN i ELSE 0

\* mutant: only the stone next to the played cell is turned
FlipRunFirstOnly(b, x, y, dx, dy, player, k, i) ==
    IF k < i THEN setPiece(b, x + k * dx, y + k * dy, player) ELSE b

\* for (k = 1; k < i; ++k) setPiece(x + k*dx, y + k*dy, player)
RECURSIVE FlipRun(_, _, _, _, _, _, _, _)
FlipRun(b, x, y, dx, dy, player, k, i) ==
    IF k < i
    THEN FlipRun(setPiece(b, x + k * dx, y + k * dy, player), x, y, dx, dy, player, k + 1, i)
    ELSE b

\* result: [ret |-> BOOLEAN, board |-> the board on return]
checkDirection(b, x, y, dx, dy, player, flip) ==
    LET i == BracketIndex(b, x, y, dx, dy, player, 1, FALSE)
    IN  IF i = 0 THEN [ret |-> FALSE, board |-> b]
        ELSE [ret |-> TRUE,
              board |-> IF flip THEN FlipRun(b, x, y, dx, dy, player, 1, i) ELSE b]

RECURSIVE ReversiAnyDirection(_, _, _, _, _)
ReversiAnyDirection(b, x, y, player, i) ==
    IF i > 8 THEN [ret |-> FALSE, board |-> b]
    ELSE LET r == checkDirection(b, x, y, Dirs8[i][1], Dirs8[i][2], player, FALSE)
         IN  IF r.ret THEN [ret |-> TRUE, board |-> r.board]
             ELSE ReversiAnyDirection(r.board, x, y, player, i + 1)

ReversiIsValidMove(b, x, y, player) ==
    IF ~isValidBounds(b, x, y) \/ getPiece(b, x, y) # EMPTY
    THEN [ret |-> FALSE, board |-> b]
    ELSE ReversiAnyDirection(b, x, y, player, 1)

RECURSIVE ReversiFlipDirections(_, _, _, _, _)
ReversiFlipDirections(b, x, y, player, i) ==
    IF i > 8 THEN b
    ELSE ReversiFlipDirections(
             checkDirection(b, x, y, Dirs8[i][1], Dirs8[i][2], player, TRUE).board,
             x, y, player, i + 1)

\* mutant: the bracketed stones are turned, the played cell is left as it was
ReversiMakeMoveFlipsOnly(b, x, y, player) ==
    IF x = -1 /\ y = -1 THEN b
    ELSE ReversiFlipDirections(b, x, y, player, 1)

ReversiMakeMove(b, x, y, player) ==
    IF x = -1 /\ y = -1 THEN b
    ELSE ReversiFlipDirections(setPiece(b, x, y, player), x, y, player, 1)

ReversiCheckWin(b, x, y) ==
    IF countPieces(b, EMPTY) = 0
    THEN LET bl == countPieces(b, BLACK)
             w == countPieces(b, WHITE)
         IN  IF bl > w THEN BLACK_WIN
             ELSE IF w > bl THEN WHITE_WIN
             ELSE DRAW
    ELSE PLAYING

ReversiInitBoard(b) ==
    LET mid == b.size \div 2
    IN  setPiece(setPiece(setPiece(setPiece(b, mid - 1, mid - 1, WHITE),
            mid, mid, WHITE), mid - 1, mid, BLACK), mid, mid - 1, BLACK)

\* scores are kept in hundredths of a point: a stone or a territory cell is 1.0,
\* the compensation added to White is 3.75
PointValue == 100

Komi == 375

\* the four neighbours of the dequeued cell cur, k = 1 .. 4;
\* fl = [queue, checked, territory, touchesBlack, touchesWhite]
RECURSIVE FloodNeighbours(_, _, _, _)
FloodNeighbours(b, fl, cur, k) ==
    IF k > 4 THEN fl
    ELSE LET nx == cur[1] + Dirs4[k][1]
             ny == cur[2] + Dirs4[k][2]
             neighbor == getPiece(b, nx, ny)
         IN  IF ~isValidBounds(b, nx, ny) THEN FloodNeighbours(b, fl, cur, k + 1)
             ELSE IF neighbor = EMPTY
                  THEN IF <<nx, ny>> \notin fl.checked
                       THEN FloodNeighbours(b,
                                [fl EXCEPT !.checked = @ \cup {<<nx, ny>>},
                                           !.queue = Append(@, <<nx, ny>>),
                                           !.territory = Append(@, <<nx, ny>>)],
                                cur, k + 1)
                       ELSE FloodNeighbours(b, fl, cur, k + 1)
                  ELSE IF neighbor = BLACK
                       THEN FloodNeighbours(b, [fl EXCEPT !.touchesBlack = TRUE], cur, k + 1)
                       ELSE FloodNeighbours(b, [fl EXCEPT !.touchesWhite = TRUE], cur, k + 1)

\* mutant: the search stops after the first cell taken from the queue
FloodTerritorySeedOnly(b, fl) ==
    IF fl.queue = <<>> THEN fl
    ELSE [FloodNeighbours(b, [fl EXCEPT !.queue = Tail(@)], Head(fl.queue), 1)
             EXCEPT !.queue = <<>>]

\* while (!q.empty())
RECURSIVE FloodTerritory(_, _)
FloodTerritory(b, fl) ==
    IF fl.queue = <<>> THEN fl
    ELSE FloodTerritory(b, FloodNeighbours(b, [fl EXCEPT !.queue = Tail(@)], Head(fl.queue), 1))

\* the double loop over i, j in row-major order; sc = [black, white, checked]
RECURSIVE GoScoreScan(_, _, _)
GoScoreScan(b, sc, idx) ==
    IF idx >= b.size * b.size THEN sc
    ELSE LET i == idx \div b.size
             j == idx % b.size
             p == getPiece(b, i, j)
         IN  IF <<i, j>> \in sc.checked THEN GoScoreScan(b, sc, idx + 1)
             ELSE IF p = BLACK
                  THEN GoScoreScan(b, [sc EXCEPT !.black = @ + PointValue,
                                                 !.checked = @ \cup {<<i, j>>}], idx + 1)
             ELSE IF p = WHITE
                  THEN GoScoreScan(b, [sc EXCEPT !.white = @ + PointValue,
                                                 !.checked = @ \cup {<<i, j>>}], idx + 1)
             ELSE LET fl == FloodTerritory(b,
                                [queue |-> << <<i, j>> >>,
                                 checked |-> sc.checked \cup {<<i, j>>},
                                 territory |-> << <<i, j>> >>,
                                 touchesBlack |-> FALSE, touchesWhite |-> FALSE])
                      n == Len(fl.territory) * PointValue
                  IN  GoScoreScan(b,
                          [black |-> IF fl.touchesBlack /\ ~fl.touchesWhite
                                     THEN sc.black + n ELSE sc.black,
                           white |-> IF ~fl.touchesBlack /\ fl.touchesWhite
                                     THEN sc.white + n ELSE sc.white,
                           checked |-> fl.checked],
                          idx + 1)

\* result: [black, white] in hundredths; the board is only read
GoCalculateScore(b) ==
    LET sc == GoScoreScan(b, [black |-> 0, white |-> 0, checked |-> {}], 0)
    IN  [black |-> sc.black, white |-> sc.white + Komi]

\* ---------------------------------------------------------------- state
VARIABLES
    gameType,   \* GameManager::gameType / dynamic type of the GameRule
    board,      \* the Board the rule engine is bound to
    coords,     \* coordinates callers pass to the rule engine in this run
    op,         \* name of the last rule-engine call ("init" before any)
    arg,        \* its arguments [x, y, player]
    ret,        \* its return value
    prev,       \* the board as it was when that call was entered
    budget,     \* number of moves the caller will still apply in this run
    currentTurn,    \* GameManager::currentTurn
    passCount,      \* GameManager::passCount
    moveHistory,    \* GameManager::moveHistory
    undoStack,      \* GameManager::undoStack, top last
    phase,          \* "idle" outside gameLoop, "playing" inside, "over" / "quit" after it
    result,         \* the winner gameLoop announced, "none" before
    color,          \* AIPlayer::color of the player running getMCTSMove
    rootBoard,      \* getMCTSMove: Board rootBoard
    simBoard,       \* getMCTSMove: Board simBoard of the current iteration
    rootRule,       \* the board rootRule is bound to ("real", "root" or "sim")
    simRule,        \* the board simRule is bound to
    nodes,          \* the MCTSNode objects in order of creation, root first
    node,           \* getMCTSMove: MCTSNode* node, an index of nodes (0 = nullptr)
    simPlayer,      \* getMCTSMove: PieceType simPlayer
    depth,          \* getMCTSMove: int depth of the playout
    iterations,     \* getMCTSMove: int iterations
    simLast,        \* the move last applied through simRule in this iteration
    playoutResult,  \* getMCTSMove: double result, in halves (0, 1, 2)
    bestMove,       \* getMCTSMove: Point bestMove, the value returned
    searchStep,     \* position in getMCTSMove: "idle", "loop", "playout", "returned"
    text,           \* the characters Board::serialize wrote (digits 0 .. 9 and " ")
    target,         \* the Board object deserialize is called on
    oob,            \* deserialize indexed a row of grid beyond its length
    fileStep,       \* "idle", "saved" after serialize, "loaded" after deserialize
    file,           \* the save file: [gt, ct, passCount, boardStr, history], or NoFile
    visited         \* GoRule::visited: the cells marked true

\* the locals of getMCTSMove and the scratch array of the rule objects
searchVars == <<color, rootBoard, simBoard, rootRule, simRule, nodes, node, simPlayer,
                depth, iterations, simLast, playoutResult, bestMove, searchStep, visited>>
fileVars == <<text, target, oob, fileStep, file>>
callVars == <<coords, op, arg, ret, prev, budget, searchVars, fileVars>>
driverVars == <<currentTurn, passCount, moveHistory, undoStack, phase, result, searchVars,
                fileVars>>
vars == <<gameType, board, coords, op, arg, ret, prev, budget,
          currentTurn, passCount, moveHistory, undoStack, phase, result, searchVars,
          fileVars>>

NoFile == [gt |-> 0, ct |-> EMPTY, passCount |-> 0, boardStr |-> <<>>, history |-> <<>>]

\* no board is being written or read
FileIdle ==
    /\ file = NoFile
    /\ text = <<>>
    /\ target = board
    /\ oob = FALSE
    /\ fileStep = "idle"

\* getMCTSMove is not running
SearchIdle ==
    /\ color = BLACK
    /\ rootBoard = board
    /\ simBoard = board
    /\ rootRule = "real"
    /\ simRule = "real"
    /\ nodes = <<>>
    /\ node = 0
    /\ simPlayer = BLACK
    /\ depth = 0
    /\ iterations = 0
    /\ simLast = <<PassXY, PassXY>>
    /\ playoutResult = 0
    /\ bestMove = <<PassXY, PassXY>>
    /\ searchStep = "idle"
    /\ visited = {}

NoArg == [x |-> 0, y |-> 0, player |-> EMPTY]

\* no game is being driven: the rule engine is called directly
DriverIdle ==
    /\ currentTurn = BLACK
    /\ passCount = 0
    /\ moveHistory = <<>>
    /\ undoStack = <<>>
    /\ phase = "idle"
    /\ result = "none"
    /\ SearchIdle
    /\ FileIdle

\* virtual dispatch on the rule object
IsValidMove(gt, b, x, y, player) ==
    CASE gt = GOMOKU -> GomokuIsValidMove(b, x, y, player)
      [] gt = GO -> GoIsValidMove(b, x, y, player)
      [] gt = REVERSI -> ReversiIsValidMove(b, x, y, player)

MakeMove(gt, b, x, y, player) ==
    CASE gt = GOMOKU -> GomokuMakeMove(b, x, y, player)
      [] gt = GO -> GoMakeMove(b, x, y, player)
      [] gt = REVERSI -> ReversiMakeMove(b, x, y, player)

CheckWin(gt, b, x, y) ==
    CASE gt = GOMOKU -> GomokuCheckWin(b, x, y)
      [] gt = GO -> GoCheckWin(b, x, y)
      [] gt = REVERSI -> ReversiCheckWin(b, x, y)

\* GameRule::calculateScore: one point per stone
BaseCalculateScore(b) ==
    [black |-> countPieces(b, BLACK) * PointValue, white |-> countPieces(b, WHITE) * PointValue]

\* only GoRule overrides calculateScore
CalculateScore(gt, b) == IF gt = GO THEN GoCalculateScore(b) ELSE BaseCalculateScore(b)

\* GameRule::initBoard is empty; only ReversiRule overrides it
InitBoard(gt, b) == IF gt = REVERSI THEN ReversiInitBoard(b) ELSE b

\* exhaustive scan; every isValidMove call of the scan returns the board as it found it
hasValidMove(gt, b, player) ==
    \E c \in Cells(b.size) : IsValidMove(gt, b, c[1], c[2], player).ret

\* every coordinate of the board, one step outside it on each side, and the pass sentinel
AllCoords(sz) == (-1 .. sz) \X (-1 .. sz)

GoBoards ==
    {b \in [size : {GoSize}, grid : [0 .. GoSize - 1 -> [0 .. GoSize - 1 -> Piece]]] :
        countPieces(b, BLACK) + countPieces(b, WHITE) <= MaxGoStones}

InitGo ==
    /\ gameType = GO
    /\ board \in GoBoards
    /\ coords = AllCoords(GoSize)
    /\ op = "init"
    /\ arg = NoArg
    /\ ret = FALSE
    /\ prev = board
    /\ DriverIdle
    /\ budget = ProbeMoves

\* the position of the 9x9 capture scenario and the coordinates played around it
\* a game that starts on the empty board (GoRule::initBoard leaves it empty)
InitGoEmpty ==
    /\ gameType = GO
    /\ \/ /\ board = InitBoard(GO, NewBoard(GoSize))
          /\ budget = EmptyStartMoves
       \/ /\ board = InitBoard(GO, NewBoard(GoGameSize))
          /\ budget = MaxPlies
    /\ coords = AllCoords(board.size)
    /\ op = "init"
    /\ arg = NoArg
    /\ ret = FALSE
    /\ prev = board
    /\ DriverIdle

Go9Board ==
    setPiece(setPiece(setPiece(setPiece(NewBoard(9), 0, 2, WHITE),
        0, 0, BLACK), 0, 1, BLACK), 1, 0, BLACK)

Go9Coords == ((-1 .. 2) \X (-1 .. 4)) \cup {<<9, 9>>}

InitGo9 ==
    /\ gameType = GO
    /\ board = Go9Board
    /\ coords = Go9Coords
    /\ op = "init"
    /\ arg = NoArg
    /\ ret = FALSE
    /\ prev = board
    /\ DriverIdle
    /\ budget = ScenarioMoves

\* sample positions: an empty board or a board filled without any run longer than two,
\* with one full line (row, column or diagonal) repainted in every possible way
TiledBoard(sz) ==
    [size |-> sz,
     grid |-> [x \in 0 .. sz - 1 |-> [y \in 0 .. sz - 1 |->
                  IF (x + 2 * y) % 4 < 2 THEN BLACK ELSE WHITE]]]

LineCell(start, dir, k) == <<start[1] + k * dir[1], start[2] + k * dir[2]>>

\* cells from which a line in direction dir starts at the edge of the board
LineStarts(sz, dir) == {c \in Cells(sz) : <<c[1] - dir[1], c[2] - dir[2]>> \notin Cells(sz)}

RECURSIVE PaintLine(_, _, _, _, _)
PaintLine(b, start, dir, pattern, k) ==
    IF LineCell(start, dir, k) \notin Cells(b.size) THEN b
    ELSE PaintLine(setPiece(b, LineCell(start, dir, k)[1], LineCell(start, dir, k)[2], pattern[k]),
                   start, dir, pattern, k + 1)

LineBoards(sz) ==
    UNION {{PaintLine(bg, start, GomokuDirections[d], pattern, 0) :
                bg \in {NewBoard(sz), TiledBoard(sz)},
                start \in LineStarts(sz, GomokuDirections[d]),
                pattern \in [0 .. sz - 1 -> Piece]} : d \in 1 .. 4}

GomokuBoards == LineBoards(GomokuSize)

\* the 15x15 scenario: Black (7,7)..(7,10), three White stones below, White to move
Gomoku15Board ==
    LET b1 == setPiece(setPiece(setPiece(setPiece(NewBoard(15), 7, 7, BLACK),
                  7, 8, BLACK), 7, 9, BLACK), 7, 10, BLACK)
    IN  setPiece(setPiece(setPiece(b1, 8, 7, WHITE), 8, 8, WHITE), 8, 9, WHITE)

Gomoku15Coords == ((6 .. 8) \X (5 .. 12)) \cup {<<-1, -1>>, <<0, 0>>, <<15, 15>>}

InitGomoku ==
    /\ gameType = GOMOKU
    /\ \/ /\ board \in GomokuBoards
          /\ coords = AllCoords(GomokuSize)
          /\ budget = ProbeMoves
       \/ /\ board = Gomoku15Board
          /\ coords = Gomoku15Coords
          /\ budget = ScenarioMoves
    /\ op = "init"
    /\ arg = NoArg
    /\ ret = FALSE
    /\ prev = board
    /\ DriverIdle

\* Reversi positions: the opening position and what either colour's legal moves make of
\* it, and the sample positions
InitReversi ==
    /\ gameType = REVERSI
    /\ \/ /\ board = InitBoard(REVERSI, NewBoard(ReversiSize))
          /\ budget = ReversiMoves
       \/ /\ board \in LineBoards(ReversiSize)
          /\ budget = ProbeMoves
    /\ coords = AllCoords(ReversiSize)
    /\ op = "init"
    /\ arg = NoArg
    /\ ret = FALSE
    /\ prev = board
    /\ DriverIdle

\* a caller asks for the legality of any coordinate on the position it holds
CallIsValidMove(x, y, player) ==
    /\ op = "init" \/ (op = "makeMove" /\ budget > 0)
    /\ LET r == IsValidMove(gameType, board, x, y, player)
       IN  /\ board' = r.board
           /\ ret' = r.ret
    /\ op' = "isValidMove"
    /\ arg' = [x |-> x, y |-> y, player |-> player]
    /\ prev' = board
    /\ UNCHANGED <<gameType, coords, budget, driverVars>>

\* callers apply a move only after isValidMove confirmed it (gameLoop, getMove,
\* playouts), or hand over the pass sentinel
CallMakeMove(x, y, player) ==
    /\ budget > 0
    /\ \/ op = "init" /\ x = -1 /\ y = -1
       \/ op = "isValidMove" /\ ret = TRUE /\ arg = [x |-> x, y |-> y, player |-> player]
    /\ board' = MakeMove(gameType, board, x, y, player)
    /\ ret' = FALSE
    /\ op' = "makeMove"
    /\ arg' = [x |-> x, y |-> y, player |-> player]
    /\ prev' = board
    /\ budget' = budget - 1
    /\ UNCHANGED <<gameType, coords, driverVars>>

\* checkWin(move.x, move.y) after a move; checkWin(0,0) in playouts; the pass sentinel
CheckWinProbes == {<<-1, -1>>, <<0, 0>>}

CallCheckWin(x, y) ==
    /\ \/ op = "makeMove" /\ x = arg.x /\ y = arg.y
       \/ op = "init" /\ <<x, y>> \in CheckWinProbes
    /\ ret' = CheckWin(gameType, board, x, y)
    /\ op' = "checkWin"
    /\ arg' = [x |-> x, y |-> y, player |-> getPiece(board, x, y)]
    /\ prev' = board
    /\ UNCHANGED <<gameType, board, coords, budget, driverVars>>

\* the score of the position as it stands, asked at the start or after a move
CallCalculateScore ==
    /\ op \in {"init", "makeMove"}
    /\ ret' = CalculateScore(gameType, board)
    /\ op' = "calculateScore"
    /\ arg' = NoArg
    /\ prev' = board
    /\ UNCHANGED <<gameType, board, coords, budget, driverVars>>

NextRules ==
    \/ \E c \in coords, p \in Colour : CallIsValidMove(c[1], c[2], p)
    \/ \E c \in coords, p \in Colour : CallMakeMove(c[1], c[2], p)
    \/ \E c \in coords : CallCheckWin(c[1], c[2])
    \/ CallCalculateScore

\* ---------------------------------------------------------------- game driver
\* mutant: only the Go rule object reports that it supports passing
supportsPassGoOnly(gt) == gt = GO

supportsPass(gt) == gt \in {GO, REVERSI}

\* mutant: the snapshot is taken with the pass count cleared
saveStateClearsPassCount ==
    Append(undoStack, [board |-> board, currentPlayer |-> currentTurn,
                       passCount |-> 0, moveHistory |-> moveHistory])

\* GameState state = {*board, currentTurn, passCount, moveHistory}; undoStack.push(state)
saveState ==
    Append(undoStack, [board |-> board, currentPlayer |-> currentTurn,
                       passCount |-> passCount, moveHistory |-> moveHistory])

\* label GAME_OVER: if (bScore > wScore) Black wins, else White wins
GameOverResult(b) ==
    LET sc == CalculateScore(gameType, b)
    IN  IF sc.black > sc.white THEN BLACK_WIN ELSE WHITE_WIN

\* gameLoop is entered by run() with a new game (opening position, Black to move) or
\* with a game read by loadGame (any saved position, side to move and pass count)
InitReversiGame ==
    /\ gameType = REVERSI
    /\ \/ /\ board = InitBoard(REVERSI, NewBoard(ReversiSize))
          /\ currentTurn = BLACK
          /\ passCount = 0
       \/ /\ board \in LineBoards(ReversiSize)
          /\ currentTurn \in Colour
          /\ passCount \in {0, 1}
    /\ moveHistory = <<>>
    /\ undoStack = <<>>
    /\ phase = "playing"
    /\ result = "none"
    /\ coords = AllCoords(ReversiSize)
    /\ op = "init"
    /\ arg = NoArg
    /\ ret = FALSE
    /\ prev = board
    /\ budget = 0
    /\ SearchIdle
    /\ FileIdle

MustPass == supportsPass(gameType) /\ ~hasValidMove(gameType, board, currentTurn)

\* the side to move has no legal move: forced pass
ForcedPass ==
    /\ phase = "playing"
    /\ MustPass
    /\ undoStack' = saveState
    /\ passCount' = passCount + 1
    /\ moveHistory' = Append(moveHistory, <<-1, -1>>)
    /\ IF passCount + 1 >= 2 \/ (gameType = REVERSI /\ countPieces(board, EMPTY) = 0)
       THEN /\ phase' = "over"
            /\ result' = GameOverResult(board)
            /\ UNCHANGED currentTurn
       ELSE /\ currentTurn' = getOpponent(currentTurn)
            /\ UNCHANGED <<phase, result>>
    /\ UNCHANGED <<gameType, board, callVars>>

LoopForcedPass == Len(moveHistory) < MaxPlies /\ ForcedPass

\* move.x == -2
LoopUndo ==
    /\ phase = "playing"
    /\ ~MustPass
    /\ IF undoStack = <<>>
       THEN UNCHANGED <<board, currentTurn, passCount, moveHistory, undoStack, op>>
       ELSE LET st == undoStack[Len(undoStack)]
            IN  /\ undoStack' = SubSeq(undoStack, 1, Len(undoStack) - 1)
                /\ board' = st.board
                /\ currentTurn' = st.currentPlayer
                /\ passCount' = st.passCount
                /\ moveHistory' = st.moveHistory
                /\ op' = "undo"
    /\ UNCHANGED <<gameType, phase, result, coords, arg, ret, prev, budget, searchVars,
                   fileVars>>

\* move.x == -4
LoopQuit ==
    /\ phase = "playing"
    /\ ~MustPass
    /\ phase' = "quit"
    /\ UNCHANGED <<gameType, board, currentTurn, passCount, moveHistory, undoStack,
                   result, callVars>>

\* mutant: a pass asked for by the player is not written to the move history
LoopManualPassUnrecorded ==
    /\ phase = "playing"
    /\ ~MustPass
    /\ \E c \in coords : c[1] = -1
    /\ IF gameType # GO
       THEN UNCHANGED <<currentTurn, passCount, moveHistory, undoStack, phase, result>>
       ELSE /\ Len(moveHistory) < MaxPlies
            /\ undoStack' = saveState
            /\ passCount' = passCount + 1
            /\ moveHistory' = moveHistory
            /\ currentTurn' = getOpponent(currentTurn)
            /\ IF passCount + 1 >= 2
               THEN phase' = "over" /\ result' = GameOverResult(board)
               ELSE UNCHANGED <<phase, result>>
    /\ UNCHANGED <<gameType, board, callVars>>

\* move.x == -1 (any y): a pass asked for by the player; only Go accepts it
LoopManualPass ==
    /\ phase = "playing"
    /\ ~MustPass
    /\ \E c \in coords : c[1] = -1
    /\ IF gameType # GO
       THEN UNCHANGED <<currentTurn, passCount, moveHistory, undoStack, phase, result>>
       ELSE /\ Len(moveHistory) < MaxPlies
            /\ undoStack' = saveState
            /\ passCount' = passCount + 1
            /\ moveHistory' = Append(moveHistory, <<-1, -1>>)
            /\ currentTurn' = getOpponent(currentTurn)
            /\ IF passCount + 1 >= 2
               THEN phase' = "over" /\ result' = GameOverResult(board)
               ELSE UNCHANGED <<phase, result>>
    /\ UNCHANGED <<gameType, board, callVars>>

\* status after a move: checkWin, asked again by the Reversi end tests of the loop
StatusAfterMove(gt, b, x, y) ==
    LET status == CheckWin(gt, b, x, y)
    IN  IF gt = REVERSI
        THEN IF \/ countPieces(b, EMPTY) = 0
                \/ countPieces(b, BLACK) = 0
                \/ countPieces(b, WHITE) = 0
             THEN CheckWin(gt, b, x, y)
             ELSE IF ~hasValidMove(gt, b, BLACK) /\ ~hasValidMove(gt, b, WHITE)
                  THEN CheckWin(gt, b, x, y)
                  ELSE status
        ELSE status

\* a coordinate the rule engine accepts: the move is applied
PlaceStone(x, y) ==
    /\ phase = "playing"
    /\ x >= 0
    /\ IsValidMove(gameType, board, x, y, currentTurn).ret
    /\ ~MustPass
    /\ undoStack' = saveState
    /\ LET b1 == MakeMove(gameType, IsValidMove(gameType, board, x, y, currentTurn).board,
                          x, y, currentTurn)
           status == StatusAfterMove(gameType, b1, x, y)
       IN  /\ board' = b1
           /\ IF status # PLAYING
              THEN /\ phase' = "over"
                   /\ result' = status
                   /\ UNCHANGED currentTurn
              ELSE /\ currentTurn' = getOpponent(currentTurn)
                   /\ UNCHANGED <<phase, result>>
    /\ moveHistory' = Append(moveHistory, <<x, y>>)
    /\ passCount' = 0
    /\ UNCHANGED <<gameType, callVars>>

LoopPlaceStone(x, y) == Len(moveHistory) < MaxPlies /\ PlaceStone(x, y)

\* a coordinate the rule engine refuses: nothing but the board isValidMove hands back
LoopRejectAt(x, y) ==
    /\ x >= 0
    /\ ~IsValidMove(gameType, board, x, y, currentTurn).ret
    /\ board' = IsValidMove(gameType, board, x, y, currentTurn).board

LoopRejectMove ==
    /\ phase = "playing"
    /\ ~MustPass
    /\ \E c \in coords : LoopRejectAt(c[1], c[2])
    /\ UNCHANGED <<gameType, driverVars, callVars>>

NextGame ==
    \/ LoopForcedPass
    \/ LoopUndo
    \/ LoopQuit
    \/ LoopManualPass
    \/ \E c \in coords : LoopPlaceStone(c[1], c[2])
    \/ LoopRejectMove

\* run() starts a Go game: empty board, Black to move
InitGoGame ==
    /\ gameType = GO
    /\ board = InitBoard(GO, NewBoard(GoGameSize))
    /\ currentTurn = BLACK
    /\ passCount = 0
    /\ moveHistory = <<>>
    /\ undoStack = <<>>
    /\ phase = "playing"
    /\ result = "none"
    /\ coords = AllCoords(GoGameSize)
    /\ op = "init"
    /\ arg = NoArg
    /\ ret = FALSE
    /\ prev = board
    /\ budget = 0
    /\ SearchIdle
    /\ FileIdle

\* replayMode: the board is cleared and set up, then the entries i, i + 1, ... of the
\* history are applied with p, the other colour, p, ...; an entry with x == -1 applies
\* nothing
RECURSIVE ReplayFrom(_, _, _, _, _)
ReplayFrom(gt, b, history, i, p) ==
    IF i > Len(history) THEN b
    ELSE ReplayFrom(gt,
                    IF history[i][1] = -1 THEN b
                    ELSE MakeMove(gt, b, history[i][1], history[i][2], p),
                    history, i + 1, getOpponent(p))

replayMode(gt, size, history) ==
    ReplayFrom(gt, InitBoard(gt, NewBoard(size)), history, 1, BLACK)

SpecReversiGame == InitReversiGame /\ [][NextGame]_vars

SpecGoGame == InitGoGame /\ [][NextGame]_vars

\* ---------------------------------------------------------------- search engine
\* while (depth < 60)
PlayoutDepth == 60

\* the board a rule object reads and writes
RuleBoard(rule) ==
    CASE rule = "real" -> board
      [] rule = "root" -> rootBoard
      [] rule = "sim" -> simBoard

\* mutant: the copy of a rule object stays bound to the board of the original
cloneKeepsBoard(rule, newBoard) == rule

\* GameRule* clone(Board* newBoard): a new rule object bound to newBoard
clone(rule, newBoard) == newBoard

\* the cells isValidMove accepts for player, in the order of the scan i, j
RECURSIVE LegalMovesFrom(_, _, _, _)
LegalMovesFrom(gt, b, player, idx) ==
    IF idx >= b.size * b.size THEN <<>>
    ELSE LET i == idx \div b.size
             j == idx % b.size
         IN  IF IsValidMove(gt, b, i, j, player).ret
             THEN <<<<i, j>>>> \o LegalMovesFrom(gt, b, player, idx + 1)
             ELSE LegalMovesFrom(gt, b, player, idx + 1)

LegalMoves(gt, b, player) == LegalMovesFrom(gt, b, player, 0)

\* MCTSNode::MCTSNode; wins is kept in halves
MCTSNode(gt, p, m, player, b) ==
    [parent |-> p, children |-> <<>>, move |-> m, playerMoved |-> player,
     visits |-> 0, wins |-> 0,
     untriedMoves |-> LegalMoves(gt, b, getOpponent(player))]

\* 1.414 * sqrt(log(N) / n) in millionths, row N, column n; values of bestChild that
\* differ, differ by more than 80 millionths for N <= 8
ExploreMicros ==
    << <<0, 0, 0, 0, 0, 0, 0, 0>>,
       <<1177232, 832429, 679675, 588616, 526474, 480603, 444952, 416214>>,
       <<1482080, 1047989, 855679, 741040, 662806, 605057, 560174, 523994>>,
       <<1664858, 1177232, 961206, 832429, 744547, 679675, 629257, 588616>>,
       <<1793852, 1268445, 1035681, 896926, 802235, 732337, 678012, 634222>>,
       <<1892733, 1338364, 1092770, 946366, 846456, 772705, 715386, 669182>>,
       <<1972472, 1394748, 1138807, 986236, 882116, 805258, 745524, 697374>>,
       <<2039026, 1441809, 1177232, 1019513, 911880, 832429, 770679, 720905>> >>

\* child->wins / child->visits + cParam * sqrt(log(visits) / child->visits), in millionths
Uct(ns, n, c) ==
    (ns[c].wins * 1000000) \div (2 * ns[c].visits) + ExploreMicros[ns[n].visits][ns[c].visits]

\* the loop of bestChild over children[k ..]; bestValue = -1 stands for -infinity
RECURSIVE BestChildFrom(_, _, _, _, _)
BestChildFrom(ns, n, k, best, bestValue) ==
    IF k > Len(ns[n].children) THEN best
    ELSE LET c == ns[n].children[k]
         IN  IF Uct(ns, n, c) > bestValue
             THEN BestChildFrom(ns, n, k + 1, c, Uct(ns, n, c))
             ELSE BestChildFrom(ns, n, k + 1, best, bestValue)

bestChild(ns, n) == BestChildFrom(ns, n, 1, 0, -1)

\* mutant: the descent applies every move with the colour of the searching player
RECURSIVE SelectionSamePlayer(_, _, _)
SelectionSamePlayer(gt, ns, sel) ==
    IF ns[sel.node].untriedMoves = <<>> /\ ns[sel.node].children # <<>>
    THEN LET c == bestChild(ns, sel.node)
             m == ns[c].move
         IN  SelectionSamePlayer(gt, ns,
                 [node |-> c,
                  board |-> IF m[1] # -1 THEN MakeMove(gt, sel.board, m[1], m[2], sel.player)
                            ELSE sel.board,
                  player |-> sel.player,
                  last |-> IF m[1] # -1 THEN m ELSE sel.last])
    ELSE sel

\* selection: while (node->untriedMoves.empty() && !node->children.empty());
\* sel = [node, board, player, last]
RECURSIVE Selection(_, _, _)
Selection(gt, ns, sel) ==
    IF ns[sel.node].untriedMoves = <<>> /\ ns[sel.node].children # <<>>
    THEN LET c == bestChild(ns, sel.node)
             m == ns[c].move
         IN  Selection(gt, ns,
                 [node |-> c,
                  board |-> IF m[1] # -1 THEN MakeMove(gt, sel.board, m[1], m[2], sel.player)
                            ELSE sel.board,
                  player |-> getOpponent(sel.player),
                  last |-> IF m[1] # -1 THEN m ELSE sel.last])
    ELSE sel

\* mutant: the move tried stays in the list
EraseAtNothing(seq, idx) == seq

\* untriedMoves.erase(untriedMoves.begin() + idx), idx counted from 1
EraseAt(seq, idx) == SubSeq(seq, 1, idx - 1) \o SubSeq(seq, idx + 1, Len(seq))

\* mutant: every node of the path is credited with the result as seen by Black
RECURSIVE BackpropagationForBlack(_, _, _)
BackpropagationForBlack(ns, n, r) ==
    IF n = 0 THEN ns
    ELSE BackpropagationForBlack(
             [ns EXCEPT ![n].visits = @ + 1, ![n].wins = @ + r], ns[n].parent, r)

\* backpropagation: while (node != nullptr); r is the result in halves
RECURSIVE Backpropagation(_, _, _)
Backpropagation(ns, n, r) ==
    IF n = 0 THEN ns
    ELSE Backpropagation(
             [ns EXCEPT ![n].visits = @ + 1,
                        ![n].wins = @ + (IF ns[n].playerMoved = BLACK THEN r ELSE 2 - r)],
             ns[n].parent, r)

\* status = checkWin(0,0), replaced by the comparison of calculateScore when it is
\* PLAYING or DRAW
PlayoutStatus(gt, b) ==
    LET status == CheckWin(gt, b, 0, 0)
        sc == CalculateScore(gt, b)
    IN  IF status = PLAYING \/ status = DRAW
        THEN IF sc.black > sc.white THEN BLACK_WIN
             ELSE IF sc.white > sc.black THEN WHITE_WIN ELSE DRAW
        ELSE status

\* mutant: a win counts two points and a draw one
ResultOfDoubled(status) ==
    IF status = BLACK_WIN THEN 4 ELSE IF status = WHITE_WIN THEN 0 ELSE 2

\* result = 1.0, 0.0 or 0.5, in halves
ResultOf(status) ==
    IF status = BLACK_WIN THEN 2 ELSE IF status = WHITE_WIN THEN 0 ELSE 1

\* mutant: the root child with the highest average reward is returned
RECURSIVE FinalDecisionByReward(_, _, _, _)
FinalDecisionByReward(ns, k, best, maxVisits) ==
    IF k > Len(ns[1].children) THEN best
    ELSE LET c == ns[1].children[k]
         IN  IF best = <<PassXY, PassXY>>
                \/ ns[c].wins * ns[maxVisits].visits > ns[maxVisits].wins * ns[c].visits
             THEN FinalDecisionByReward(ns, k + 1, ns[c].move, c)
             ELSE FinalDecisionByReward(ns, k + 1, best, maxVisits)

\* final decision: for (auto child : root->children) if (child->visits > maxVisits)
RECURSIVE FinalDecision(_, _, _, _)
FinalDecision(ns, k, best, maxVisits) ==
    IF k > Len(ns[1].children) THEN best
    ELSE LET c == ns[1].children[k]
         IN  IF ns[c].visits > maxVisits
             THEN FinalDecision(ns, k + 1, ns[c].move, ns[c].visits)
             ELSE FinalDecision(ns, k + 1, best, maxVisits)

ruleCallVars == <<coords, op, arg, ret, prev, budget, visited>>
gameVars == <<currentTurn, passCount, moveHistory, undoStack, phase, result, fileVars>>

\* a write through a rule object reaches the board the rule is bound to
SetRuleBoard(rule, b) ==
    /\ board' = IF rule = "real" THEN b ELSE board
    /\ rootBoard' = IF rule = "root" THEN b ELSE rootBoard
    /\ simBoard' = IF rule = "sim" THEN b ELSE simBoard

\* getMCTSMove is entered by the AI player of colour c: rootBoard, rootRule, root
SearchStart(c) ==
    /\ searchStep = "idle"
    /\ color' = c
    /\ rootBoard' = board
    /\ rootRule' = clone("real", "root")
    /\ nodes' = << MCTSNode(gameType, 0, <<PassXY, PassXY>>, getOpponent(c),
                            IF rootRule' = "root" THEN rootBoard' ELSE board) >>
    /\ iterations' = 0
    /\ searchStep' = "loop"
    /\ UNCHANGED <<gameType, board, simBoard, simRule, node, simPlayer, depth, simLast,
                   playoutResult, bestMove, ruleCallVars, gameVars>>

\* the elapsed-time test ends the loop, whatever the number of iterations done
SearchTimeUp ==
    /\ searchStep = "loop"
    /\ bestMove' = FinalDecision(nodes, 1, <<PassXY, PassXY>>, -1)
    /\ searchStep' = "returned"
    /\ UNCHANGED <<gameType, board, color, rootBoard, simBoard, rootRule, simRule, nodes,
                   node, simPlayer, depth, iterations, simLast, playoutResult,
                   ruleCallVars, gameVars>>

\* the state of an iteration after selection: simBoard copied from rootBoard, simRule
\* cloned from rootRule, the descent by bestChild played through simRule
Selected ==
    LET rule == clone(rootRule, "sim")
    IN  Selection(gameType, nodes,
            [node |-> 1,
             board |-> IF rule = "sim" THEN rootBoard ELSE RuleBoard(rule),
             player |-> color,
             last |-> <<PassXY, PassXY>>])

\* the boards after the first part of an iteration left b on the board of simRule
SetIterationBoards(b) ==
    LET rule == clone(rootRule, "sim")
    IN  /\ simRule' = rule
        /\ board' = IF rule = "real" THEN b ELSE board
        /\ rootBoard' = IF rule = "root" THEN b ELSE rootBoard
        /\ simBoard' = IF rule = "sim" THEN b ELSE rootBoard

\* an iteration whose selected node has untried moves: expansion by the move at idx
SearchExpand(idx) ==
    /\ searchStep = "loop"
    /\ iterations < MaxIterations
    /\ idx \in 1 .. Len(nodes[Selected.node].untriedMoves)
    /\ LET sel == Selected
           move == nodes[sel.node].untriedMoves[idx]
           b1 == MakeMove(gameType, sel.board, move[1], move[2], sel.player)
           child == MCTSNode(gameType, sel.node, move, sel.player, b1)
       IN  /\ nodes' = Append([nodes EXCEPT ![sel.node].untriedMoves = EraseAt(@, idx),
                                           ![sel.node].children = Append(@, Len(nodes) + 1)],
                              child)
           /\ node' = Len(nodes) + 1
           /\ simPlayer' = getOpponent(sel.player)
           /\ simLast' = move
           /\ SetIterationBoards(b1)
    /\ iterations' = iterations + 1
    /\ depth' = 0
    /\ searchStep' = "playout"
    /\ UNCHANGED <<gameType, color, rootRule, playoutResult, bestMove, ruleCallVars, gameVars>>

\* an iteration whose selected node has no untried move and no child
SearchNoExpand ==
    /\ searchStep = "loop"
    /\ iterations < MaxIterations
    /\ nodes[Selected.node].untriedMoves = <<>>
    /\ node' = Selected.node
    /\ simPlayer' = Selected.player
    /\ simLast' = Selected.last
    /\ SetIterationBoards(Selected.board)
    /\ iterations' = iterations + 1
    /\ depth' = 0
    /\ searchStep' = "playout"
    /\ UNCHANGED <<gameType, color, rootRule, nodes, playoutResult, bestMove,
                   ruleCallVars, gameVars>>

\* mutant: the playout loop is left at the depth limit only
PlayoutOverAtDepthOnly == depth >= PlayoutDepth

\* the tests that leave the playout loop
PlayoutOver ==
    \/ depth >= PlayoutDepth
    \/ /\ ~hasValidMove(gameType, RuleBoard(simRule), BLACK)
       /\ ~hasValidMove(gameType, RuleBoard(simRule), WHITE)
    \/ CheckWin(gameType, RuleBoard(simRule), 0, 0) # PLAYING

\* moves.empty(): the playout passes
SearchPlayoutPass ==
    /\ searchStep = "playout"
    /\ ~PlayoutOver
    /\ LegalMoves(gameType, RuleBoard(simRule), simPlayer) = <<>>
    /\ simPlayer' = getOpponent(simPlayer)
    /\ UNCHANGED <<gameType, board, color, rootBoard, simBoard, rootRule, simRule, nodes,
                   node, depth, iterations, simLast, playoutResult, bestMove, searchStep,
                   ruleCallVars, gameVars>>

\* randomMove = moves[rand() % moves.size()]
SearchPlayoutMove(k) ==
    /\ searchStep = "playout"
    /\ ~PlayoutOver
    /\ k \in 1 .. Len(LegalMoves(gameType, RuleBoard(simRule), simPlayer))
    /\ LET randomMove == LegalMoves(gameType, RuleBoard(simRule), simPlayer)[k]
       IN  /\ SetRuleBoard(simRule, MakeMove(gameType, RuleBoard(simRule),
                                             randomMove[1], randomMove[2], simPlayer))
           /\ simLast' = randomMove
    /\ simPlayer' = getOpponent(simPlayer)
    /\ depth' = depth + 1
    /\ UNCHANGED <<gameType, color, rootRule, simRule, nodes, node, iterations,
                   playoutResult, bestMove, searchStep, ruleCallVars, gameVars>>

\* the playout is over: result mapping and backpropagation
SearchBackpropagate ==
    /\ searchStep = "playout"
    /\ PlayoutOver
    /\ playoutResult' = ResultOf(PlayoutStatus(gameType, RuleBoard(simRule)))
    /\ nodes' = Backpropagation(nodes, node, playoutResult')
    /\ node' = 0
    /\ searchStep' = "loop"
    /\ UNCHANGED <<gameType, board, color, rootBoard, simBoard, rootRule, simRule,
                   simPlayer, depth, iterations, simLast, bestMove, ruleCallVars, gameVars>>

\* positions given to the search: a full board without a run longer than two, with one
\* row repainted in every way that leaves at most MaxEmpty cells empty
SearchLineBoards(sz) ==
    {b \in {PaintLine(TiledBoard(sz), <<x, 0>>, <<0, 1>>, pattern, 0) :
                x \in 0 .. sz - 1, pattern \in [0 .. sz - 1 -> Piece]} :
        countPieces(b, EMPTY) <= MaxEmpty}

\* a Gomoku position with four Black stones at the start of the middle row, the next
\* cell of the row empty and one more empty cell in the last corner
SearchFiveBoard ==
    setPiece(setPiece(PaintLine(TiledBoard(GomokuSize), <<2, 0>>, <<0, 1>>,
                                [k \in 0 .. GomokuSize - 1 |-> BLACK], 0),
                      2, 4, EMPTY),
             GomokuSize - 1, GomokuSize - 1, EMPTY)

InitSearch ==
    /\ \/ /\ gameType = GOMOKU
          /\ board \in SearchLineBoards(GomokuSize) \cup {SearchFiveBoard}
       \/ /\ gameType = REVERSI
          /\ board \in SearchLineBoards(ReversiSize)
    /\ coords = AllCoords(board.size)
    /\ op = "init"
    /\ arg = NoArg
    /\ ret = FALSE
    /\ prev = board
    /\ budget = 0
    /\ DriverIdle

\* the expansion index and the playout index range over the moves there can be
NextSearch ==
    \/ \E c \in Colour : SearchStart(c)
    \/ SearchTimeUp
    \/ \E idx \in 1 .. MaxEmpty : SearchExpand(idx)
    \/ SearchNoExpand
    \/ SearchPlayoutPass
    \/ \E k \in 1 .. MaxEmpty : SearchPlayoutMove(k)
    \/ SearchBackpropagate

\* searches followed through whole playouts: Go on the smallest board, where captures
\* keep a playout going up to the depth limit, from the empty board and from a position
\* in which White has no legal move, and the Reversi positions of the search
PlayoutGoBoards ==
    {NewBoard(GoGameSize),
     setPiece(setPiece(NewBoard(GoGameSize), 0, 0, BLACK), 1, 1, BLACK)}

InitPlayout ==
    /\ \/ /\ gameType = GO
          /\ board \in PlayoutGoBoards
       \/ /\ gameType = REVERSI
          /\ board \in SearchLineBoards(ReversiSize)
    /\ coords = AllCoords(board.size)
    /\ op = "init"
    /\ arg = NoArg
    /\ ret = FALSE
    /\ prev = board
    /\ budget = 0
    /\ DriverIdle

\* the time is up after PlayoutIterations iterations at the latest
NextPlayout ==
    \/ \E c \in Colour : SearchStart(c)
    \/ SearchTimeUp
    \/ /\ iterations < PlayoutIterations
       /\ \E idx \in 1 .. GoGameSize * GoGameSize : SearchExpand(idx)
    \/ /\ iterations < PlayoutIterations
       /\ SearchNoExpand
    \/ SearchPlayoutPass
    \/ \E k \in 1 .. GoGameSize * GoGameSize : SearchPlayoutMove(k)
    \/ SearchBackpropagate

SpecPlayout == InitPlayout /\ [][NextPlayout]_vars

\* ---------------------------------------------------------------- save and load
\* boards written out: every board of size 1 and 2 and the sample boards of the
\* largest size
FileBoards ==
    [size : {1}, grid : [0 .. 0 -> [0 .. 0 -> Piece]]]
        \cup [size : {2}, grid : [0 .. 1 -> [0 .. 1 -> Piece]]]
        \cup LineBoards(MaxFileSize)

\* the Board objects deserialize is called on: built by Board(s), s = 0 included
InitFile ==
    /\ gameType \in {GOMOKU, GO, REVERSI}
    /\ board \in FileBoards
    /\ coords = AllCoords(board.size)
    /\ op = "init"
    /\ arg = NoArg
    /\ ret = FALSE
    /\ prev = board
    /\ budget = 0
    /\ currentTurn = BLACK
    /\ passCount = 0
    /\ moveHistory = <<>>
    /\ undoStack = <<>>
    /\ phase = "idle"
    /\ result = "none"
    /\ SearchIdle
    /\ file = NoFile
    /\ text = <<>>
    /\ target \in {NewBoard(sz) : sz \in 0 .. MaxFileSize}
    /\ oob = FALSE
    /\ fileStep = "idle"

\* saveGame: file << board->serialize()
CallSerialize ==
    /\ fileStep = "idle"
    /\ text' = serialize(board)
    /\ fileStep' = "saved"
    /\ UNCHANGED <<gameType, board, target, oob, file, coords, op, arg, ret, prev, budget,
                   currentTurn, passCount, moveHistory, undoStack, phase, result, searchVars>>

\* loadGame: board->deserialize(ss)
CallDeserialize(landed, temp0) ==
    /\ fileStep = "saved"
    /\ target' = deserialize(target, text, landed, temp0).board
    /\ oob' = deserialize(target, text, landed, temp0).oob
    /\ fileStep' = "loaded"
    /\ UNCHANGED <<gameType, board, text, file, coords, op, arg, ret, prev, budget,
                   currentTurn, passCount, moveHistory, undoStack, phase, result, searchVars>>

NextFile ==
    \/ CallSerialize
    \/ \E landed \in BOOLEAN, temp0 \in UninitInts : CallDeserialize(landed, temp0)

\* ---------------------------------------------------------------- liberty discovery
\* the rule object is asked for the liberties of a stone, as isValidMove asks for the
\* stone it placed and removeDeadStones for the opponent's stones next to it
InitLiberties ==
    /\ gameType = GO
    /\ board \in GoBoards
    /\ coords = AllCoords(GoSize)
    /\ op = "init"
    /\ arg = NoArg
    /\ ret = FALSE
    /\ prev = board
    /\ budget = ScenarioMoves
    /\ DriverIdle

CallGetLiberties(x, y) ==
    /\ budget > 0
    /\ getPiece(board, x, y) # EMPTY
    /\ LET st == getLibertiesAfter(board, visited, x, y, getPiece(board, x, y))
       IN  /\ ret' = [lib |-> st.lib, group |-> st.group]
           /\ visited' = st.visited
    /\ op' = "getLiberties"
    /\ arg' = [x |-> x, y |-> y, player |-> getPiece(board, x, y)]
    /\ prev' = board
    /\ budget' = budget - 1
    /\ UNCHANGED <<gameType, board, coords, color, rootBoard, simBoard, rootRule, simRule,
                   nodes, node, simPlayer, depth, iterations, simLast, playoutResult,
                   bestMove, searchStep, gameVars>>

NextLiberties == \E c \in coords : CallGetLiberties(c[1], c[2])

SpecLiberties == InitLiberties /\ [][NextLiberties]_vars

\* ---------------------------------------------------------------- move selectors
\* the scan of AIPlayer::getMove from cell idx on: st = [moves, board]; every call of
\* isValidMove hands the board on as it left it
RECURSIVE ValidMovesScan(_, _, _, _)
ValidMovesScan(gt, st, player, idx) ==
    IF idx >= st.board.size * st.board.size THEN st
    ELSE LET i == idx \div st.board.size
             j == idx % st.board.size
             r == IsValidMove(gt, st.board, i, j, player)
         IN  ValidMovesScan(gt,
                 [moves |-> IF r.ret THEN Append(st.moves, <<i, j>>) ELSE st.moves,
                  board |-> r.board],
                 player, idx + 1)

\* mutant: every empty cell is collected without asking the rule object
ValidMovesEmptyCells(gt, b, player) ==
    [moves |-> LegalMoves(GOMOKU, b, player), board |-> b]

\* vector<Point> validMoves and the board after the scan
ValidMoves(gt, b, player) == ValidMovesScan(gt, [moves |-> <<>>, board |-> b], player, 0)

\* int weights[8][8]
weights ==
    << <<100, -20, 10, 5, 5, 10, -20, 100>>,
       <<-20, -50, -2, -2, -2, -2, -50, -20>>,
       <<10, -2, -1, -1, -1, -1, -2, 10>>,
       <<5, -2, -1, -1, -1, -1, -2, 5>>,
       <<5, -2, -1, -1, -1, -1, -2, 5>>,
       <<10, -2, -1, -1, -1, -1, -2, 10>>,
       <<-20, -50, -2, -2, -2, -2, -50, -20>>,
       <<100, -20, 10, 5, 5, 10, -20, 100>> >>

\* weights is indexed when p.x < 8 && p.y < 8
WeightsExtent == 8

\* score += rand() % 5
JitterRange == 5

\* int bestScore = -99999
LowestScore == -99999

\* the score of a move before the jitter is added
PositionScore(p) ==
    IF p[1] < WeightsExtent /\ p[2] < WeightsExtent THEN weights[p[1] + 1][p[2] + 1] ELSE 1

\* the loop of level 2 over validMoves[k ..]; jitter[k] is the value of rand() % 5 drawn
\* for validMoves[k]
RECURSIVE GreedyFrom(_, _, _, _, _)
GreedyFrom(moves, jitter, k, best, bestScore) ==
    IF k > Len(moves) THEN best
    ELSE LET score == PositionScore(moves[k]) + jitter[k]
         IN  IF score > bestScore
             THEN GreedyFrom(moves, jitter, k + 1, moves[k], score)
             ELSE GreedyFrom(moves, jitter, k + 1, best, bestScore)

\* cells left empty in the sample positions of the selectors: corner, next to the
\* corner, inner cells of weight -2 and -1, and two cells beyond the weight table
ChoiceCells == {<<0, 0>>, <<1, 1>>, <<1, 2>>, <<2, 2>>, <<0, 8>>, <<8, 8>>}

RECURSIVE ClearCells(_, _)
ClearCells(b, cs) ==
    IF cs = {} THEN b
    ELSE LET c == CHOOSE c \in cs : TRUE
         IN  ClearCells(setPiece(b, c[1], c[2], EMPTY), cs \ {c})

\* positions the selectors are asked on: a full 9x9 Gomoku board with up to MaxEmpty
\* of the cells above emptied, and the full boards with one repainted row of the search
SelectBoards(gt) ==
    CASE gt = GOMOKU ->
             {ClearCells(TiledBoard(WeightsExtent + 1), cs) :
                  cs \in {S \in SUBSET ChoiceCells : Cardinality(S) <= MaxEmpty}}
      [] gt = GO -> SearchLineBoards(GoSize)
      [] gt = REVERSI -> SearchLineBoards(ReversiSize)

InitSelect ==
    /\ gameType \in {GOMOKU, GO, REVERSI}
    /\ board \in SelectBoards(gameType)
    /\ coords = AllCoords(board.size)
    /\ op = "init"
    /\ arg = NoArg
    /\ ret = FALSE
    /\ prev = board
    /\ budget = 0
    /\ DriverIdle

\* AIPlayer::getMove of the player of colour c at level 1: idx is rand() % size, from 1
GetMoveRandom(c, idx) ==
    /\ op = "init"
    /\ LET valid == ValidMoves(gameType, board, c)
       IN  /\ board' = valid.board
           /\ IF valid.moves = <<>>
              THEN ret' = <<PassXY, PassXY>>
              ELSE /\ idx \in 1 .. Len(valid.moves)
                   /\ ret' = valid.moves[idx]
    /\ op' = "getMove"
    /\ arg' = [level |-> 1, player |-> c]
    /\ prev' = board
    /\ UNCHANGED <<gameType, coords, budget, driverVars>>

\* AIPlayer::getMove of the player of colour c at level 2
GetMoveGreedy(c, jitter) ==
    /\ op = "init"
    /\ LET valid == ValidMoves(gameType, board, c)
       IN  /\ board' = valid.board
           /\ ret' = IF valid.moves = <<>> THEN <<PassXY, PassXY>>
                     ELSE GreedyFrom(valid.moves, jitter, 1, valid.moves[1], LowestScore)
    /\ op' = "getMove"
    /\ arg' = [level |-> 2, player |-> c]
    /\ prev' = board
    /\ UNCHANGED <<gameType, coords, budget, driverVars>>

NextSelect ==
    \/ \E c \in Colour, idx \in 1 .. MaxEmpty : GetMoveRandom(c, idx)
    \/ \E c \in Colour, jitter \in [1 .. MaxEmpty -> 0 .. JitterRange - 1] :
           GetMoveGreedy(c, jitter)

SpecSelect == InitSelect /\ [][NextSelect]_vars

\* ---------------------------------------------------------------- saved games
\* int size of loadGame and run(): 8 for Reversi, 19 for Go, 15 for Gomoku, scaled to
\* the board sizes of this model
LoadSize(gt) == IF gt = REVERSI THEN ReversiSize ELSE IF gt = GO THEN GoGameSize ELSE GomokuSize

\* what saveGame writes for the live game
SaveRecord(gt, ct, pc, b, history) ==
    [gt |-> gt, ct |-> ct, passCount |-> pc, boardStr |-> serialize(b), history |-> history]

\* games as run() starts them, before and after a first stone in the corner
LiveBoards(gt) ==
    {InitBoard(gt, NewBoard(LoadSize(gt))),
     setPiece(InitBoard(gt, NewBoard(LoadSize(gt))), 0, 0, BLACK)}

\* the board line of a file cut after n characters
Truncate(rec, n) == [rec EXCEPT !.boardStr = SubSeq(@, 1, n)]

\* the board line of a file with another number in the place of the size
WithSize(rec, sz) ==
    [rec EXCEPT !.boardStr = Digits(sz) \o SubSeq(@, ReadInt(@, 1).pos, Len(@))]

\* files loadGame can be given: files saveGame wrote, whole or damaged
WrittenRecords ==
    {SaveRecord(gt, ct, pc, b, h) :
         gt \in {GOMOKU, GO, REVERSI}, ct \in Colour, pc \in {0, 1},
         b \in UNION {LiveBoards(t) : t \in {GOMOKU, GO, REVERSI}},
         h \in {<<>>, << <<0, 0>> >>}}

DiskRecords ==
    LET written == {r \in WrittenRecords : ReadInt(r.boardStr, 1).value = LoadSize(r.gt)}
    IN  written
            \cup {Truncate(r, n) : r \in written, n \in {0, 2, 5}}
            \cup {WithSize(r, LoadSize(r.gt) + d) : r \in written, d \in {-1, 1}}

InitLoad ==
    /\ gameType \in {GOMOKU, GO, REVERSI}
    /\ board \in LiveBoards(gameType)
    /\ currentTurn \in Colour
    /\ passCount \in {0, 1}
    /\ moveHistory = IF board = InitBoard(gameType, NewBoard(LoadSize(gameType)))
                     THEN <<>> ELSE << <<0, 0>> >>
    /\ undoStack = <<>>
    /\ phase = "idle"
    /\ result = "none"
    /\ coords = AllCoords(board.size)
    /\ op = "init"
    /\ arg = NoArg
    /\ ret = FALSE
    /\ prev = board
    /\ budget = 0
    /\ SearchIdle
    /\ FileIdle

\* GameManager::saveGame
SaveGame ==
    /\ fileStep = "idle"
    /\ file' = SaveRecord(gameType, currentTurn, passCount, board, moveHistory)
    /\ fileStep' = "saved"
    /\ op' = "saveGame"
    /\ UNCHANGED <<gameType, board, text, target, oob, coords, arg, ret, prev, budget,
                   currentTurn, passCount, moveHistory, undoStack, phase, result, searchVars>>

\* GameManager::loadGame on a file that opens and holds rec
LoadGame(rec, landed, temp0) ==
    /\ fileStep \in {"idle", "saved"}
    /\ file' = rec
    /\ gameType' = rec.gt
    /\ currentTurn' = rec.ct
    /\ passCount' = rec.passCount
    /\ LET r == deserialize(NewBoard(LoadSize(rec.gt)), rec.boardStr, landed, temp0)
       IN  /\ board' = r.board
           /\ oob' = r.oob
    /\ moveHistory' = rec.history
    /\ ret' = TRUE
    /\ op' = "loadGame"
    /\ prev' = board
    /\ fileStep' = "loaded"
    /\ UNCHANGED <<text, target, coords, arg, budget, undoStack, phase, result, searchVars>>

NextLoad ==
    \/ SaveGame
    \/ \E rec \in DiskRecords \cup {file}, landed \in BOOLEAN, temp0 \in UninitInts :
           LoadGame(rec, landed, temp0)

SpecLoad == InitLoad /\ [][NextLoad]_vars

\* ---------------------------------------------------------------- menu of run()
\* the Go games among the files saveGame wrote
SessionRecords ==
    {r \in WrittenRecords : r.gt = GO /\ ReadInt(r.boardStr, 1).value = LoadSize(GO)}

\* run(), choice "2": loadGame returned true and the player asks to go on: gameLoop()
MenuContinue ==
    /\ op = "loadGame"
    /\ ret = TRUE
    /\ phase \in {"quit", "over"}
    /\ phase' = "playing"
    /\ result' = "none"
    /\ UNCHANGED <<gameType, board, currentTurn, passCount, moveHistory, undoStack,
                   callVars>>

\* one session of run(): a new Go game is played and left, a saved game is loaded from
\* the menu and played on
NextSession ==
    \/ NextGame /\ Len(undoStack') <= SessionSnapshots
    \/ /\ phase \in {"quit", "over"}
       /\ \E rec \in SessionRecords : LoadGame(rec, FALSE, 0)
    \/ MenuContinue

SpecSession == InitGoGame /\ [][NextSession]_vars

\* ---------------------------------------------------------------- automated games
\* run(), mode 3: a new game of Gomoku or Reversi between two AIPlayers of level 1 or 2
InitAIGame ==
    /\ gameType \in {GOMOKU, REVERSI}
    /\ board = InitBoard(gameType, NewBoard(LoadSize(gameType)))
    /\ currentTurn = BLACK
    /\ passCount = 0
    /\ moveHistory = <<>>
    /\ undoStack = <<>>
    /\ phase = "playing"
    /\ result = "none"
    /\ coords = AllCoords(board.size)
    /\ op = "init"
    /\ arg = NoArg
    /\ ret = FALSE
    /\ prev = board
    /\ budget = 0
    /\ SearchIdle
    /\ FileIdle

\* the turn of a level 1 player: validMoves[rand() % size], idx counted from 1; the
\* random players are followed for the first RandomPlies entries of the history
AIRandomMove(idx) ==
    /\ ~MustPass
    /\ Len(moveHistory) < RandomPlies
    /\ LET valid == ValidMoves(gameType, board, currentTurn).moves
       IN  /\ idx \in 1 .. Len(valid)
           /\ PlaceStone(valid[idx][1], valid[idx][2])

\* the turn of a level 2 player when every rand() % 5 of the loop draws j
AIGreedyMove(j) ==
    /\ ~MustPass
    /\ LET valid == ValidMoves(gameType, board, currentTurn).moves
           best == GreedyFrom(valid, [k \in 1 .. Len(valid) |-> j], 1, valid[1], LowestScore)
       IN  /\ valid # <<>>
           /\ PlaceStone(best[1], best[2])

NextAIGame ==
    \/ ForcedPass
    \/ \E idx \in 1 .. LoadSize(gameType) * LoadSize(gameType) : AIRandomMove(idx)
    \/ \E j \in 0 .. JitterRange - 1 : AIGreedyMove(j)

SpecAIGame == InitAIGame /\ [][NextAIGame]_vars

\* ---------------------------------------------------------------- board access
\* callers of Board: boards built by Board(s), s = 0 .. MaxBoardSize, in any filling
BoardSamples ==
    UNION {[size : {sz}, grid : [0 .. sz - 1 -> [0 .. sz - 1 -> Piece]]] :
               sz \in 0 .. MaxBoardSize}

InitBoardAccess ==
    /\ gameType \in {GOMOKU, GO, REVERSI}
    /\ board \in BoardSamples
    /\ coords = AllCoords(board.size)
    /\ op = "init"
    /\ arg = NoArg
    /\ ret = EMPTY
    /\ prev = board
    /\ budget = ProbeMoves
    /\ DriverIdle

\* board.getPiece(x, y)
CallGetPiece(x, y) ==
    /\ op # "getPiece"
    /\ ret' = getPiece(board, x, y)
    /\ op' = "getPiece"
    /\ arg' = [x |-> x, y |-> y, player |-> EMPTY]
    /\ prev' = board
    /\ UNCHANGED <<gameType, board, coords, budget, driverVars>>

\* board.setPiece(x, y, p)
CallSetPiece(x, y, p) ==
    /\ budget > 0
    /\ board' = setPiece(board, x, y, p)
    /\ ret' = EMPTY
    /\ op' = "setPiece"
    /\ arg' = [x |-> x, y |-> y, player |-> p]
    /\ prev' = board
    /\ budget' = budget - 1
    /\ UNCHANGED <<gameType, coords, driverVars>>

NextBoardAccess ==
    \/ \E c \in coords : CallGetPiece(c[1], c[2])
    \/ \E c \in coords, p \in Piece : CallSetPiece(c[1], c[2], p)

SpecBoardAccess == InitBoardAccess /\ [][NextBoardAccess]_vars

SpecFile == InitFile /\ [][NextFile]_vars

SpecSearch == InitSearch /\ [][NextSearch]_vars

SpecGo == InitGo /\ [][NextRules]_vars

SpecGoEmpty == InitGoEmpty /\ [][NextRules]_vars

SpecGo9 == InitGo9 /\ [][NextRules]_vars

SpecGomoku == InitGomoku /\ [][NextRules]_vars

SpecReversi == InitReversi /\ [][NextRules]_vars

\* ================================================================ properties
At(b, c) == b.grid[c[1]][c[2]]

\* Go vocabulary, stated on sets of cells and independent of the traversal
Adjacent(c, d) ==
    \/ c[1] = d[1] /\ (c[2] - d[2] = 1 \/ d[2] - c[2] = 1)
    \/ c[2] = d[2] /\ (c[1] - d[1] = 1 \/ d[1] - c[1] = 1)

RECURSIVE GrowGroup(_, _)
GrowGroup(b, S) ==
    LET more == {d \in Cells(b.size) \ S :
                    \E c \in S : Adjacent(c, d) /\ At(b, d) = At(b, c)}
    IN  IF more = {} THEN S ELSE GrowGroup(b, S \cup more)

\* maximal 4-connected same-colour set containing the stone at c
GroupOf(b, c) == GrowGroup(b, {c})

LibertiesOf(b, G) ==
    {d \in Cells(b.size) : At(b, d) = EMPTY /\ \E c \in G : Adjacent(c, d)}

\* opponent stones next to c whose group has no liberty on b
DeadNeighbours(b, c, opponent) ==
    {n \in Cells(b.size) :
        Adjacent(c, n) /\ At(b, n) = opponent /\ LibertiesOf(b, GroupOf(b, n)) = {}}

DeadCells(b, c, opponent) ==
    UNION {GroupOf(b, n) : n \in DeadNeighbours(b, c, opponent)}

ArgCell == <<arg.x, arg.y>>
ArgInBounds == isValidBounds(prev, arg.x, arg.y)
Trial == setPiece(prev, arg.x, arg.y, arg.player)

\* C1: a Go isValidMove call returns with every cell of the board as it was on entry
C1_GoIsValidMoveLeavesBoard ==
    (gameType = GO /\ op = "isValidMove") => board = prev

\* a capturing probe (the path on which the self-liberty test is skipped) has returned
C1_Witness ==
    /\ gameType = GO /\ op = "isValidMove" /\ ret = TRUE
    /\ ArgInBounds /\ At(prev, ArgCell) = EMPTY
    /\ DeadNeighbours(Trial, ArgCell, getOpponent(arg.player)) # {}

\* C2: Go isValidMove is true exactly for an in-bounds Empty cell where the placed stone
\* either leaves an adjacent opponent group without liberty or has a liberty itself
C2_GoLegalIffCaptureOrLiberty ==
    (gameType = GO /\ op = "isValidMove") =>
        (ret = (/\ ArgInBounds
                /\ At(prev, ArgCell) = EMPTY
                /\ \/ DeadNeighbours(Trial, ArgCell, getOpponent(arg.player)) # {}
                   \/ LibertiesOf(Trial, GroupOf(Trial, ArgCell)) # {}))

\* a suicidal, non-capturing placement next to own and opponent stones was rejected
C2_Witness ==
    /\ gameType = GO /\ op = "isValidMove" /\ ret = FALSE
    /\ ArgInBounds /\ At(prev, ArgCell) = EMPTY
    /\ Cardinality(GroupOf(Trial, ArgCell)) >= 2
    /\ \E n \in Cells(prev.size) : Adjacent(ArgCell, n) /\ At(prev, n) = getOpponent(arg.player)

\* C3: a Go move empties exactly the cells of the adjacent opponent groups it leaves
\* without liberty; all other stones, the placed one included, stay
C3_GoCaptureExact ==
    (gameType = GO /\ op = "makeMove" /\ arg.x # -1) =>
        \A c \in Cells(prev.size) :
            At(board, c) = IF c \in DeadCells(Trial, ArgCell, getOpponent(arg.player))
                            THEN EMPTY ELSE At(Trial, c)

\* a move took a group of two or more stones, spared an adjacent opponent group that
\* kept a liberty, and the placed stone had no liberty before the capture
C3_Witness ==
    /\ gameType = GO /\ op = "makeMove" /\ arg.x # -1
    /\ \E n \in DeadNeighbours(Trial, ArgCell, getOpponent(arg.player)) :
            Cardinality(GroupOf(Trial, n)) >= 2
    /\ \E n \in Cells(prev.size) :
            /\ Adjacent(ArgCell, n) /\ At(Trial, n) = getOpponent(arg.player)
            /\ At(board, n) = getOpponent(arg.player)
    /\ LibertiesOf(Trial, GroupOf(Trial, ArgCell)) = {}
    /\ At(board, ArgCell) = arg.player

\* C4 as stated: in the 9x9 scenario the White stone at (0,2) is gone as soon as Black
\* has added (1,2) to (0,0), (0,1), (1,0)
C4_CapturedAfterOneTwo ==
    (op = "makeMove" /\ prev = Go9Board /\ arg = [x |-> 1, y |-> 2, player |-> BLACK])
        => At(board, <<0, 2>>) = EMPTY

Go9PlusOneTwo == setPiece(Go9Board, 1, 2, BLACK)

\* C4 amended: the White stone at (0,2) stands in the scenario position and still stands
\* after Black (1,2), its liberty (0,3) being open; it is taken when Black then plays (0,3)
C4_CapturedAfterOneTwoAndZeroThree ==
    /\ board = Go9Board => At(board, <<0, 2>>) = WHITE
    /\ (op = "makeMove" /\ prev = Go9Board /\ arg = [x |-> 1, y |-> 2, player |-> BLACK])
          => At(board, <<0, 2>>) = WHITE
    /\ (op = "makeMove" /\ prev = Go9PlusOneTwo /\ arg = [x |-> 0, y |-> 3, player |-> BLACK])
          => At(board, <<0, 2>>) = EMPTY

C4_Witness ==
    /\ op = "makeMove" /\ prev = Go9PlusOneTwo
    /\ arg = [x |-> 0, y |-> 3, player |-> BLACK]
    /\ At(board, <<0, 2>>) = EMPTY

\* Gomoku vocabulary: c lies in five consecutive cells of one colour on one of the four axes
InFiveWindow(b, c, colour) ==
    \E dir \in {<<1, 0>>, <<0, 1>>, <<1, 1>>, <<1, -1>>}, k \in 0 .. 4 :
        \A j \in 0 .. 4 :
            LET e == <<c[1] + (j - k) * dir[1], c[2] + (j - k) * dir[2]>>
            IN  e \in Cells(b.size) /\ At(b, e) = colour

BoardFull(b) == \A c \in Cells(b.size) : At(b, c) # EMPTY

\* C5: Gomoku checkWin on a stone reports that stone's colour as winner exactly when the
\* stone lies in a run of five or more on an axis; otherwise Draw on a full board and
\* Playing on any other; so Black (7,11) after (7,7)..(7,10) on 15x15 is a Black win
C5_GomokuWinIffFive ==
    (gameType = GOMOKU /\ op = "checkWin" /\ ArgCell \in Cells(board.size)
        /\ At(board, ArgCell) # EMPTY) =>
        ret = IF InFiveWindow(board, ArgCell, At(board, ArgCell))
              THEN (IF At(board, ArgCell) = BLACK THEN BLACK_WIN ELSE WHITE_WIN)
              ELSE IF BoardFull(board) THEN DRAW ELSE PLAYING

\* the 15x15 scenario was played: White moved elsewhere, Black played (7,11), and
\* checkWin(7,11) returned
C5_Witness ==
    /\ gameType = GOMOKU /\ board.size = 15 /\ op = "checkWin"
    /\ arg = [x |-> 7, y |-> 11, player |-> BLACK]
    /\ countPieces(board, WHITE) = 4
    /\ ret = BLACK_WIN

\* Reversi vocabulary: in direction dir from c, the cells at distance 1 .. n-1 hold
\* opponent stones and the cell at distance n >= 2 holds a stone of player
Step(c, dir, k) == <<c[1] + k * dir[1], c[2] + k * dir[2]>>

AllDirs == {d \in (-1 .. 1) \X (-1 .. 1) : d # <<0, 0>>}

Brackets(b, c, dir, player, n) ==
    /\ n >= 2
    /\ Step(c, dir, n) \in Cells(b.size)
    /\ At(b, Step(c, dir, n)) = player
    /\ \A k \in 1 .. n - 1 : At(b, Step(c, dir, k)) = getOpponent(player)

BracketingDirs(b, c, player) ==
    {dir \in AllDirs : \E n \in 2 .. b.size : Brackets(b, c, dir, player, n)}

\* the opponent stones strictly between c and a bracketing stone
Bracketed(b, c, player) ==
    {e \in Cells(b.size) :
        \E dir \in AllDirs, n \in 2 .. b.size, k \in 1 .. b.size :
            Brackets(b, c, dir, player, n) /\ k < n /\ e = Step(c, dir, k)}

\* C6: Reversi isValidMove is true exactly for an in-bounds Empty cell with at least one
\* bracketing direction, and it returns with the board unchanged
C6_ReversiLegalIffBracket ==
    (gameType = REVERSI /\ op = "isValidMove") =>
        /\ ret = (/\ ArgInBounds
                  /\ At(prev, ArgCell) = EMPTY
                  /\ BracketingDirs(prev, ArgCell, arg.player) # {})
        /\ board = prev

\* an Empty cell was refused although an opponent run starts next to it: the run ends at
\* the board edge or at an Empty cell
C6_Witness ==
    /\ gameType = REVERSI /\ op = "isValidMove" /\ ret = FALSE
    /\ ArgInBounds /\ At(prev, ArgCell) = EMPTY
    /\ \E dir \in AllDirs :
           /\ Step(ArgCell, dir, 2) \in Cells(prev.size)
           /\ At(prev, Step(ArgCell, dir, 1)) = getOpponent(arg.player)
           /\ At(prev, Step(ArgCell, dir, 2)) = getOpponent(arg.player)
    /\ \E dir \in AllDirs :
           /\ Step(ArgCell, dir, 2) \in Cells(prev.size)
           /\ At(prev, Step(ArgCell, dir, 1)) = getOpponent(arg.player)
           /\ At(prev, Step(ArgCell, dir, 2)) = EMPTY

\* C7: a Reversi move colours the played cell and exactly the bracketed opponent stones
\* of every bracketing direction; every other cell keeps its value
C7_ReversiFlipsExactlyBracketed ==
    (gameType = REVERSI /\ op = "makeMove" /\ arg.x # -1) =>
        \A c \in Cells(prev.size) :
            At(board, c) = IF c = ArgCell \/ c \in Bracketed(prev, ArgCell, arg.player)
                           THEN arg.player ELSE At(prev, c)

\* a move bracketed in two or more directions, and an opponent stone beyond a bracketing
\* stone stayed as it was
C7_Witness ==
    /\ gameType = REVERSI /\ op = "makeMove" /\ arg.x # -1
    /\ Cardinality(BracketingDirs(prev, ArgCell, arg.player)) >= 2
    /\ \E dir \in AllDirs :
           /\ Brackets(prev, ArgCell, dir, arg.player, 2)
           /\ Step(ArgCell, dir, 3) \in Cells(prev.size)
           /\ At(prev, Step(ArgCell, dir, 3)) = getOpponent(arg.player)
           /\ At(board, Step(ArgCell, dir, 3)) = getOpponent(arg.player)

\* the three ways a Reversi game is over: board full, a colour without a stone,
\* neither colour with a legal move
ReversiFinished(b) ==
    \/ countPieces(b, EMPTY) = 0
    \/ countPieces(b, BLACK) = 0
    \/ countPieces(b, WHITE) = 0
    \/ ~hasValidMove(REVERSI, b, BLACK) /\ ~hasValidMove(REVERSI, b, WHITE)

\* C8: Reversi checkWin reports a finished game exactly in the positions where the board
\* is full, a colour has no stone or neither colour has a legal move
C8_ReversiStatusReportsEnd ==
    (gameType = REVERSI /\ op = "checkWin") =>
        ((ret # PLAYING) <=> ReversiFinished(board))

\* C9: a Reversi game that ends with as many black as white stones is declared a draw,
\* whether it ended on a move filling the board or on forced passes
C9_EqualCountsIsDraw ==
    (gameType = REVERSI /\ phase = "over"
        /\ countPieces(board, BLACK) = countPieces(board, WHITE)) =>
        result = DRAW

\* C10: checkWin called with the pass coordinates (-1,-1) returns PLAYING
C10_PassSentinelPlaying ==
    (op = "checkWin" /\ arg.x = PassXY /\ arg.y = PassXY) => ret = PLAYING

\* Go scoring vocabulary: the maximal 4-connected Empty region of an Empty cell c and
\* the colours of the stones next to it
TouchedColours(b, region) ==
    {At(b, d) : d \in {d \in Cells(b.size) : \E c \in region : Adjacent(c, d)}} \ {EMPTY}

TerritoryOf(b, colour) ==
    {c \in Cells(b.size) :
        At(b, c) = EMPTY /\ TouchedColours(b, GroupOf(b, c)) = {colour}}

\* C11: Go calculateScore returns Black = stones + Empty regions touching only Black,
\* White = stones + Empty regions touching only White + 3.75, and leaves the board as
\* it was; regions touching both colours or none count for nobody
C11_GoScoreIsAreaPlusKomi ==
    (gameType = GO /\ op = "calculateScore") =>
        /\ ret.black = PointValue * (countPieces(board, BLACK)
                                        + Cardinality(TerritoryOf(board, BLACK)))
        /\ ret.white = PointValue * (countPieces(board, WHITE)
                                        + Cardinality(TerritoryOf(board, WHITE))) + Komi
        /\ board = prev
        /\ (countPieces(board, EMPTY) = board.size * board.size =>
               ret = [black |-> 0, white |-> Komi])

\* a scored position with a region of two or more cells for Black, a region for White
\* and a region touching both colours
C11_Witness ==
    /\ gameType = GO /\ op = "calculateScore"
    /\ Cardinality(TerritoryOf(board, BLACK)) >= 2
    /\ TerritoryOf(board, WHITE) # {}
    /\ \E c \in Cells(board.size) :
           At(board, c) = EMPTY /\ TouchedColours(board, GroupOf(board, c)) = {BLACK, WHITE}

\* number of passes at the end of the game record
RECURSIVE TrailingPasses(_)
TrailingPasses(h) ==
    IF h = <<>> \/ h[Len(h)] # <<PassXY, PassXY>> THEN 0
    ELSE 1 + TrailingPasses(SubSeq(h, 1, Len(h) - 1))

\* C12: in a Go game the pass counter is the number of passes made since the last
\* stone, the game goes on after every stone, and it is over (and scored) exactly when
\* the counter has reached 2
C12_GoEndsOnSecondPass ==
    gameType = GO =>
        /\ passCount = TrailingPasses(moveHistory)
        /\ passCount <= 2
        /\ (phase = "over") <=> (passCount = 2)
        /\ (phase = "over") <=> (result # "none")
        /\ (phase = "over") =>
               result = (IF GoCalculateScore(board).black > GoCalculateScore(board).white
                         THEN BLACK_WIN ELSE WHITE_WIN)

\* a game that went on after a pass because a stone followed it, and ended on two
\* passes in a row later
C12_Witness ==
    /\ gameType = GO /\ phase = "over"
    /\ \E i \in 1 .. Len(moveHistory) - 3 :
           /\ moveHistory[i] = <<PassXY, PassXY>>
           /\ moveHistory[i + 1][1] >= 0

\* search vocabulary
NoMove == <<PassXY, PassXY>>

Searching == searchStep # "idle"

Returned == searchStep = "returned"

\* the node n and its ancestors up to the root
RECURSIVE PathToRoot(_, _)
PathToRoot(ns, n) == IF n = 0 THEN {} ELSE {n} \cup PathToRoot(ns, ns[n].parent)

\* C13: getMCTSMove returns the pass sentinel exactly when its colour has no legal move
\* on the position given, and otherwise a move that is legal for it on the live board
C13_PassIffNoLegalMove ==
    Returned =>
        /\ (bestMove = NoMove) <=> (LegalMoves(gameType, board, color) = <<>>)
        /\ bestMove # NoMove =>
               IsValidMove(gameType, board, bestMove[1], bestMove[2], color).ret

\* C14: with exactly one legal move for its colour, getMCTSMove returns that move after
\* any number of iterations, zero included
C14_SingleMoveReturned ==
    (Returned /\ Len(LegalMoves(gameType, board, color)) = 1) =>
        bestMove = LegalMoves(gameType, board, color)[1]

\* C15: from the entry of getMCTSMove to its return the live board is the board that
\* was passed in
C15_SearchLeavesLiveBoard ==
    Searching => board = prev

\* a search returned after an iteration that expanded a second root child and played
\* the playout on from it, on boards that differ from the live one
C15_Witness ==
    /\ Returned /\ iterations >= 2 /\ depth >= 1
    /\ Len(nodes[1].children) >= 2
    /\ simBoard # board /\ rootBoard = board /\ board = prev

\* C16: with children at the root, the move returned is that of the earliest-created
\* child among those with the highest visit count
C16_ReturnsMostVisitedChild ==
    (Returned /\ nodes[1].children # <<>>) =>
        \E k \in 1 .. Len(nodes[1].children) :
            LET c == nodes[1].children[k]
            IN  /\ bestMove = nodes[c].move
                /\ \A j \in 1 .. Len(nodes[1].children) :
                       nodes[nodes[1].children[j]].visits <= nodes[c].visits
                /\ \A j \in 1 .. k - 1 :
                       nodes[nodes[1].children[j]].visits < nodes[c].visits

\* the move of the second-created root child was returned: it has more visits than the
\* first
C16_Witness ==
    /\ Returned /\ Len(nodes[1].children) = 2
    /\ LET a == nodes[1].children[1]
           c == nodes[1].children[2]
       IN  /\ bestMove = nodes[c].move
           /\ nodes[c].visits > nodes[a].visits

\* C17: backpropagation adds one visit and the result, seen from the node's own mover,
\* to each node from the playout's node up to the root, and changes no other node
C17_BackpropagationOnPath ==
    [][(searchStep = "playout" /\ searchStep' = "loop") =>
          /\ Len(nodes') = Len(nodes)
          /\ \A i \in 1 .. Len(nodes) :
                 IF i \in PathToRoot(nodes, node)
                 THEN /\ nodes'[i].visits = nodes[i].visits + 1
                      /\ nodes'[i].wins = nodes[i].wins +
                             (IF nodes[i].playerMoved = BLACK THEN playoutResult'
                              ELSE 2 - playoutResult')
                      /\ [nodes'[i] EXCEPT !.visits = 0, !.wins = 0]
                             = [nodes[i] EXCEPT !.visits = 0, !.wins = 0]
                 ELSE nodes'[i] = nodes[i]]_vars

\* a playout below a grandchild of the root was backpropagated with a decisive result
\* while the root had another child off the path
C17_Witness ==
    /\ searchStep = "loop" /\ iterations >= 3 /\ playoutResult # 1
    /\ Len(nodes[1].children) >= 2
    /\ \E i \in 1 .. Len(nodes) :
           /\ nodes[i].parent > 1
           /\ nodes[i].visits = 1
           /\ \E j \in 1 .. Len(nodes) :
                  nodes[j].parent = 1 /\ j # nodes[i].parent /\ nodes[j].visits = 1

\* C18: the result backpropagated is 1.0 for a Black win, 0.0 for a White win and 0.5
\* for a draw; a playout that ends on a position whose checkWin is DRAW gives 0.5
C18_ResultFollowsStatus ==
    (searchStep = "loop" /\ iterations >= 1) =>
        LET status == CheckWin(gameType, simBoard, 0, 0)
        IN  /\ status = BLACK_WIN => playoutResult = 2
            /\ status = WHITE_WIN => playoutResult = 0
            /\ status = DRAW => playoutResult = 1

\* C19: a playout applies a move only while checkWin of the move last played is
\* PLAYING, and when it stops on a won position the result is that colour's win
C19_PlayoutStopsAtTerminal ==
    [][/\ (searchStep = "playout" /\ depth' = depth + 1 /\ simLast # NoMove) =>
             CheckWin(gameType, simBoard, simLast[1], simLast[2]) = PLAYING
       /\ (searchStep = "playout" /\ searchStep' = "loop" /\ simLast # NoMove
             /\ CheckWin(gameType, simBoard, simLast[1], simLast[2])
                    \in {BLACK_WIN, WHITE_WIN}) =>
             playoutResult' = ResultOf(CheckWin(gameType, simBoard, simLast[1], simLast[2]))
      ]_vars

\* C20: deserialize of the text serialize wrote for a board gives a board of the
\* same size with the same cells, whatever board it is called on, and indexes no row of
\* grid beyond its length
C20_RoundTrip ==
    fileStep = "loaded" =>
        /\ ~oob
        /\ target.size = board.size
        /\ \A c \in Cells(board.size) :
               /\ c[1] \in DOMAIN target.grid
               /\ c[2] \in DOMAIN target.grid[c[1]]
               /\ target.grid[c[1]][c[2]] = At(board, c)

\* C21: getPiece outside the board returns EMPTY (inside, the cell); setPiece outside the
\* board changes nothing; setPiece inside the board changes the addressed cell to the
\* value given and no other cell; the size never changes
C21_BoundsCheckedAccess ==
    /\ op = "getPiece" =>
           /\ board = prev
           /\ ret = IF ArgInBounds THEN At(prev, ArgCell) ELSE EMPTY
    /\ op = "setPiece" =>
           /\ board.size = prev.size
           /\ DOMAIN board.grid = DOMAIN prev.grid
           /\ \A x \in DOMAIN board.grid : DOMAIN board.grid[x] = DOMAIN prev.grid[x]
           /\ \A c \in Cells(prev.size) :
                  At(board, c) = IF c = ArgCell THEN arg.player ELSE At(prev, c)

\* reached: a write inside the board, off the diagonal, that changed a cell
C21_Witness ==
    /\ op = "setPiece"
    /\ ArgInBounds
    /\ arg.x # arg.y
    /\ board # prev

\* the number of integers operator>> can read from txt, from position pos on
RECURSIVE CountInts(_, _)
CountInts(txt, pos) ==
    IF ~ReadInt(txt, pos).any THEN 0 ELSE 1 + CountInts(txt, ReadInt(txt, pos).pos)

\* the board line is a size that matches the variant, followed by size * size cells
StructurallyValid(rec) ==
    /\ ReadInt(rec.boardStr, 1).any
    /\ ReadInt(rec.boardStr, 1).value = LoadSize(rec.gt)
    /\ CountInts(rec.boardStr, 1) = 1 + LoadSize(rec.gt) * LoadSize(rec.gt)

\* C22: a load of a structurally invalid record returns false and leaves the variant,
\* the colour to move, the pass count, the board and the move history as they were
C22_InvalidLoadLeavesGame ==
    [][(op' = "loadGame" /\ fileStep # "loaded" /\ ~StructurallyValid(file'))
           => /\ ret' = FALSE
              /\ UNCHANGED <<gameType, currentTurn, passCount, board, moveHistory>>]_vars

\* HumanPlayer::getMove on the numbers ux uy typed by the player: return {x - 1, y - 1}
HumanGetMove(ux, uy) == <<ux - 1, uy - 1>>

\* the step gameLoop takes on the Point (x, y) handed back by getMove
LoopReceives(x, y) ==
    CASE x = UndoXY -> LoopUndo
      [] x = QuitXY -> LoopQuit
      [] x = PassXY -> LoopManualPass
      [] OTHER -> \/ LoopPlaceStone(x, y)
                  \/ /\ phase = "playing"
                     /\ ~MustPass
                     /\ LoopRejectAt(x, y)
                     /\ UNCHANGED <<gameType, driverVars, callVars>>

\* C23: a coordinate isValidMove refuses for the player to move changes nothing: board,
\* colour to move, pass count, move history and undo stack keep their values and the
\* game goes on with the same player
C23_IllegalMoveRejected ==
    [][\A c \in coords :
           (/\ ~IsValidMove(gameType, board, c[1], c[2], currentTurn).ret
            /\ LoopReceives(c[1], c[2]))
               => /\ UNCHANGED <<board, currentTurn, passCount, moveHistory, undoStack>>
                  /\ phase' = "playing"]_vars

\* C24: the selectors of level 1 and 2 return the pass sentinel exactly when the player
\* has no legal coordinate, otherwise a coordinate of the board that isValidMove accepts
\* for the player; the board is as it was before the call
C24_SelectorsReturnLegalMove ==
    op = "getMove" =>
        /\ board = prev
        /\ ret = <<PassXY, PassXY>> <=>
               ~\E c \in Cells(prev.size) :
                    IsValidMove(gameType, prev, c[1], c[2], arg.player).ret
        /\ ret # <<PassXY, PassXY>> =>
               /\ ret \in Cells(prev.size)
               /\ IsValidMove(gameType, prev, ret[1], ret[2], arg.player).ret

\* reached: the greedy selector returned a move on a Reversi position that also has an
\* empty cell the player may not play
C24_Witness ==
    /\ op = "getMove"
    /\ arg.level = 2
    /\ gameType = REVERSI
    /\ ret # <<PassXY, PassXY>>
    /\ \E c \in Cells(prev.size) :
           /\ At(prev, c) = EMPTY
           /\ ~IsValidMove(gameType, prev, c[1], c[2], arg.player).ret

\* C25: the move the greedy selector returns has the highest positional score of all
\* legal coordinates of the player
C25_GreedyReturnsBestPosition ==
    (op = "getMove" /\ arg.level = 2 /\ ret # <<PassXY, PassXY>>) =>
        \A c \in Cells(prev.size) :
            IsValidMove(gameType, prev, c[1], c[2], arg.player).ret
                => PositionScore(ret) >= PositionScore(c)

\* the cells of a sequence
Range(seq) == {seq[k] : k \in 1 .. Len(seq)}

\* C26: discovery from a stone returns as group the maximal 4-connected set of stones of
\* its colour that contains it, each stone once, and a tally that is at least the number
\* of distinct empty cells next to the group and zero exactly when there is none; it
\* returns what a first discovery on the same board and stone returns
C26_DiscoveryFindsGroupAndLiberties ==
    op = "getLiberties" =>
        LET G == GroupOf(board, ArgCell)
            L == LibertiesOf(board, G)
        IN  /\ Range(ret.group) = G
            /\ Len(ret.group) = Cardinality(G)
            /\ ret.lib >= Cardinality(L)
            /\ ret.lib = 0 <=> L = {}
            /\ ret.lib = getLiberties(board, arg.x, arg.y, arg.player).lib
            /\ ret.group = getLiberties(board, arg.x, arg.y, arg.player).group

\* reached: a second discovery on the same rule object, on a group of three or more
\* stones with a liberty
C26_Witness ==
    /\ op = "getLiberties"
    /\ budget = 0
    /\ Len(ret.group) >= 3
    /\ ret.lib >= 1

\* a step of the playout loop that stays in the loop
PlayoutStep == searchStep = "playout" /\ searchStep' = "playout"

\* the number of steps a playout can still take: two for every move below the depth
\* limit, one more while the colour to move has no legal move
PlayoutRank(b, player, d) ==
    2 * (PlayoutDepth - d) + (IF hasValidMove(gameType, b, player) THEN 0 ELSE 1)

\* C27: a playout applies at most PlayoutDepth moves; a step of its loop either applies
\* a move that isValidMove accepts for the colour moving and hands the turn over, or,
\* when that colour has no legal move while the opponent has one, hands the turn over
\* without touching the board; every step lowers PlayoutRank, which is never negative,
\* so every playout is left
C27_PlayoutTerminates ==
    [][/\ depth' <= PlayoutDepth
       /\ PlayoutStep =>
              /\ simPlayer' = getOpponent(simPlayer)
              /\ PlayoutRank(simBoard', simPlayer', depth')
                     < PlayoutRank(simBoard, simPlayer, depth)
              /\ PlayoutRank(simBoard', simPlayer', depth') >= 0
              /\ \/ /\ depth' = depth + 1
                    /\ simLast' \in Cells(simBoard.size)
                    /\ IsValidMove(gameType, simBoard, simLast'[1], simLast'[2], simPlayer).ret
                    /\ simBoard' = MakeMove(gameType, simBoard, simLast'[1], simLast'[2],
                                            simPlayer)
                 \/ /\ depth' = depth
                    /\ simBoard' = simBoard
                    /\ ~hasValidMove(gameType, simBoard, simPlayer)
                    /\ hasValidMove(gameType, simBoard, getOpponent(simPlayer))]_vars

\* reached: a playout that applied PlayoutDepth moves
C27_Witness ==
    /\ searchStep = "playout"
    /\ depth = PlayoutDepth
    /\ gameType = GO

\* the position reached from b by the moves of the nodes path[k ..], each applied with
\* the colour recorded in its node; [ok, board], ok = every move was legal when applied
RECURSIVE ReplayPath(_, _, _, _)
ReplayPath(ns, path, k, st) ==
    IF k > Len(path) THEN st
    ELSE LET n == ns[path[k]]
             legal == /\ n.move \in Cells(st.board.size)
                      /\ IsValidMove(gameType, st.board, n.move[1], n.move[2],
                                     n.playerMoved).ret
         IN  IF ~legal THEN [ok |-> FALSE, board |-> st.board]
             ELSE ReplayPath(ns, path, k + 1,
                      [ok |-> TRUE,
                       board |-> MakeMove(gameType, st.board, n.move[1], n.move[2],
                                          n.playerMoved)])

\* the nodes from the first node below the root down to n
RECURSIVE PathFromRoot(_, _)
PathFromRoot(ns, n) ==
    IF n <= 1 THEN <<>> ELSE Append(PathFromRoot(ns, ns[n].parent), n)

\* C28: the root stands for the opponent of the searching colour and every other node
\* for the opponent of its parent's colour; the moves on the path from the root to any
\* node, applied from rootBoard each with the colour of its node, are legal when they
\* are applied; the working board after selection and expansion is the position these
\* moves lead to
C28_TreeMovesReplayLegally ==
    searchStep \in {"loop", "playout"} =>
        /\ nodes[1].playerMoved = getOpponent(color)
        /\ \A n \in 2 .. Len(nodes) :
               /\ nodes[n].playerMoved = getOpponent(nodes[nodes[n].parent].playerMoved)
               /\ ReplayPath(nodes, PathFromRoot(nodes, n), 1,
                             [ok |-> TRUE, board |-> rootBoard]).ok
        /\ (searchStep = "playout" /\ depth = 0) =>
               simBoard = ReplayPath(nodes, PathFromRoot(nodes, node), 1,
                                     [ok |-> TRUE, board |-> rootBoard]).board

\* reached: selection descended to a child of the root and the expansion added a node
\* below it
C28_Witness ==
    /\ searchStep = "playout"
    /\ depth = 0
    /\ node > 1
    /\ nodes[node].parent > 1
    /\ nodes[node].visits = 0

\* the moves of the children of node n
ChildMoves(ns, n) == [k \in 1 .. Len(ns[n].children) |-> ns[ns[n].children[k]].move]

\* every node of the tree ns grown from the position rb: the moves of its children and
\* its untried moves are pairwise distinct and are together the cells isValidMove
\* accepts for the side to move on the position of the node
MovesPartition(ns, rb) ==
    \A n \in 1 .. Len(ns) :
        LET all == ChildMoves(ns, n) \o ns[n].untriedMoves
            at == ReplayPath(ns, PathFromRoot(ns, n), 1, [ok |-> TRUE, board |-> rb]).board
        IN  /\ \A i, j \in 1 .. Len(all) : i # j => all[i] # all[j]
            /\ Range(all) = {c \in Cells(at.size) :
                                 IsValidMove(gameType, at, c[1], c[2],
                                             getOpponent(ns[n].playerMoved)).ret}

\* C29: the first part of an iteration descends only through nodes without untried
\* moves that have children, stops at a node that has an untried move or has no child,
\* and adds exactly one node below it in the first case and none in the second; at all
\* times the children's moves and the untried moves of every node are pairwise distinct
\* and are together the legal coordinates of the side to move at that node
C29_OneExpansionPerIteration ==
    [][/\ searchStep' \in {"loop", "playout"} => MovesPartition(nodes', rootBoard')
       /\ (searchStep = "loop" /\ searchStep' = "playout") =>
              LET reached == IF Len(nodes') > Len(nodes) THEN nodes'[node'].parent ELSE node'
              IN  /\ reached \in 1 .. Len(nodes)
                  /\ Len(nodes') = Len(nodes) + (IF nodes[reached].untriedMoves # <<>>
                                                 THEN 1 ELSE 0)
                  /\ Len(nodes') > Len(nodes) =>
                         /\ node' = Len(nodes')
                         /\ nodes'[node'].children = <<>>
                         /\ Len(nodes'[reached].children) = Len(nodes[reached].children) + 1
                  /\ nodes[reached].untriedMoves = <<>> => nodes[reached].children = <<>>
                  /\ \A a \in PathToRoot(nodes, reached) \ {reached} :
                         /\ nodes[a].untriedMoves = <<>>
                         /\ nodes[a].children # <<>>]_vars

\* reached: a tree whose root has two children and no untried move, with a node below
\* one of them
C29_Witness ==
    /\ searchStep = "playout"
    /\ Len(nodes) >= 4
    /\ Len(nodes[1].children) = 2
    /\ nodes[1].untriedMoves = <<>>
    /\ nodes[node].parent > 1

\* the sum of the visits of the children children[k ..] of node n
RECURSIVE ChildVisits(_, _, _)
ChildVisits(ns, n, k) ==
    IF k > Len(ns[n].children) THEN 0
    ELSE ns[ns[n].children[k]].visits + ChildVisits(ns, n, k + 1)

\* C30: between iterations the visits of the root are the iterations done, every other
\* node has at least one visit, the visits of a node are at least the sum of the visits
\* of its children, and wins lies between 0 and visits (wins is kept in halves)
C30_VisitCountsConsistent ==
    searchStep \in {"loop", "returned"} =>
        /\ nodes[1].visits = iterations
        /\ \A n \in 2 .. Len(nodes) : nodes[n].visits >= 1
        /\ \A n \in 1 .. Len(nodes) :
               /\ nodes[n].visits >= ChildVisits(nodes, n, 1)
               /\ 0 <= nodes[n].wins
               /\ nodes[n].wins <= 2 * nodes[n].visits

\* reached: after three or more iterations, a node below the root visited more often
\* than its children together, with wins strictly between the bounds
C30_Witness ==
    /\ searchStep = "loop"
    /\ iterations >= 3
    /\ \E n \in 2 .. Len(nodes) :
           /\ nodes[n].children # <<>>
           /\ nodes[n].visits > ChildVisits(nodes, n, 1)
           /\ 0 < nodes[n].wins
           /\ nodes[n].wins < 2 * nodes[n].visits

\* C31: from the empty Go board, after any sequence of moves each confirmed by isValidMove
\* just before it was applied (either colour, passes included), every group of stones
\* on the board has at least one liberty
C31_NoDeadStoneOnBoard ==
    gameType = GO =>
        \A c \in Cells(board.size) :
            At(board, c) # EMPTY => LibertiesOf(board, GroupOf(board, c)) # {}

\* a move that was legal only because it captured: the stone just placed had no liberty
\* until the dead neighbours came off
C31_Witness ==
    /\ gameType = GO
    /\ op = "makeMove"
    /\ arg.x # -1
    /\ LibertiesOf(Trial, GroupOf(Trial, ArgCell)) = {}
    /\ DeadCells(Trial, ArgCell, getOpponent(arg.player)) # {}
    /\ At(board, ArgCell) = arg.player

Stones(b) == countPieces(b, BLACK) + countPieces(b, WHITE)

\* the entries of a move history that put a stone on the board
Placed(h) == Cardinality({i \in 1 .. Len(h) : h[i][1] # PassXY})

\* the step of the game loop that applied a legal move
StonePlaced ==
    /\ Len(moveHistory') = Len(moveHistory) + 1
    /\ moveHistory'[Len(moveHistory')][1] # PassXY

ReversiOpening(b) ==
    LET mid == b.size \div 2
    IN  \A c \in Cells(b.size) :
            At(b, c) = IF c \in {<<mid - 1, mid - 1>>, <<mid, mid>>} THEN WHITE
                       ELSE IF c \in {<<mid - 1, mid>>, <<mid, mid - 1>>} THEN BLACK
                       ELSE EMPTY

\* C32: the Reversi opening puts White on the main diagonal of the centre block and Black
\* on the other two cells; every legal move applied adds exactly one stone, turns at
\* least one opponent stone into the mover's colour and empties no cell; a board holding
\* 4 + n stones after n placements keeps doing so
C32_ReversiMoveAddsOneStone ==
    [][/\ ReversiOpening(InitBoard(REVERSI, NewBoard(ReversiSize)))
       /\ StonePlaced =>
              /\ Stones(board') = Stones(board) + 1
              /\ \E c \in Cells(board.size) :
                     At(board, c) = getOpponent(currentTurn) /\ At(board', c) = currentTurn
              /\ \A c \in Cells(board.size) : At(board, c) # EMPTY => At(board', c) # EMPTY
       /\ Stones(board) = 4 + Placed(moveHistory)
              => Stones(board') = 4 + Placed(moveHistory')]_vars

\* a game from the opening position, three stones placed, the last one turning two or
\* more stones
C32_Witness ==
    /\ gameType = REVERSI
    /\ undoStack # <<>>
    /\ ReversiOpening(undoStack[1].board)
    /\ undoStack[1].moveHistory = <<>>
    /\ Placed(moveHistory) >= 3
    /\ Stones(board) = 4 + Placed(moveHistory)
    /\ LET top == undoStack[Len(undoStack)]
       IN  /\ Len(moveHistory) = Len(top.moveHistory) + 1
           /\ Cardinality({c \in Cells(board.size) :
                   At(top.board, c) = getOpponent(top.currentPlayer)
                   /\ At(board, c) = top.currentPlayer}) >= 2

\* what an undo has to bring back
Position == [board |-> board, currentPlayer |-> currentTurn,
             passCount |-> passCount, moveHistory |-> moveHistory]

\* C33: every stone placement or pass of the game loop stacks the position it started
\* from (board, side to move, pass count, move history); an undo puts back exactly the
\* position stacked by the move it undoes and unstacks it; when every move has been
\* undone the game is at its starting position again
C33_UndoRestoresPosition ==
    [][/\ Len(undoStack') = Len(undoStack) + 1 =>
              undoStack' = Append(undoStack, Position)
       /\ Len(undoStack') = Len(undoStack) - 1 =>
              /\ Position' = undoStack[Len(undoStack)]
              /\ undoStack' = SubSeq(undoStack, 1, Len(undoStack) - 1)
       /\ Len(undoStack') = Len(undoStack) =>
              UNCHANGED <<board, currentTurn, passCount, moveHistory, undoStack>>
       /\ undoStack' = <<>> =>
              Position' = [board |-> InitBoard(GO, NewBoard(GoGameSize)),
                           currentPlayer |-> BLACK, passCount |-> 0,
                           moveHistory |-> <<>>]]_vars

\* undos have taken back every move made: the stack is empty and the game is at its
\* starting position
C33_Witness ==
    /\ gameType = GO
    /\ op = "undo"
    /\ phase = "playing"
    /\ undoStack = <<>>
    /\ moveHistory = <<>>
    /\ board = NewBoard(GoGameSize)
    /\ currentTurn = BLACK
    /\ passCount = 0

\* C34: once loadGame has returned, the undo stack holds no snapshot of the game played
\* before the load, so that an undo cannot bring that game back
C34_LoadLeavesNoOldSnapshot ==
    op = "loadGame" => undoStack = <<>>

\* the colour that alternation from Black gives to entry i (counted from 0)
ColourOfEntry(i) == IF i % 2 = 0 THEN BLACK ELSE WHITE

\* C35: in a game started afresh, whatever moves, forced passes, manual passes and undos
\* were made, entry i of the move history (from 0) was made by Black when i is even and
\* by White when i is odd, and replayMode's replay of the history from the initial
\* position gives the live board
C35_HistoryReplaysToBoard ==
    /\ Len(undoStack) = Len(moveHistory)
    /\ \A k \in 1 .. Len(undoStack) :
           /\ undoStack[k].moveHistory = SubSeq(moveHistory, 1, k - 1)
           /\ undoStack[k].currentPlayer = ColourOfEntry(k - 1)
    /\ phase = "playing" => currentTurn = ColourOfEntry(Len(moveHistory))
    /\ replayMode(gameType, board.size, moveHistory) = board

\* undos were made, the history holds a pass and more stones than the board: a replayed
\* move captures
C35_Witness ==
    /\ op = "undo"
    /\ \E i \in 1 .. Len(moveHistory) : moveHistory[i][1] = PassXY
    /\ Stones(board) < Placed(moveHistory)
    /\ Stones(board) > 0

\* the numbers a player may type for a row or a column: from three below the first
\* line of the board to one past the last
TypedNumbers == -3 .. board.size + 1

\* C36: numbers typed by a human that name a row or column outside the board are not
\* taken for a command: the game loop does not pass, undo or quit on them and leaves
\* board, mover, pass count, history and undo stack as they were
C36_OffBoardInputIsNoCommand ==
    [][\A ux \in TypedNumbers, uy \in TypedNumbers :
           LET p == HumanGetMove(ux, uy)
           IN  (/\ ~isValidBounds(board, p[1], p[2])
                /\ LoopReceives(p[1], p[2]))
                   => /\ UNCHANGED <<board, currentTurn, passCount, moveHistory, undoStack>>
                      /\ phase' = phase]_vars

\* empty cells next to two or more stones of the group G
SharedLiberties(b, G) ==
    {d \in LibertiesOf(b, G) : Cardinality({c \in G : Adjacent(c, d)}) >= 2}

\* C37: the tally discovery returns is the number of distinct empty cells next to the
\* discovered group; an empty cell next to several stones of the group counts once
C37_TallyCountsEachLibertyOnce ==
    op = "getLiberties" =>
        ret.lib = Cardinality(LibertiesOf(board, GroupOf(board, ArgCell)))

\* discovery on a group with an empty cell next to two of its stones and another empty
\* cell next to one
C37_Witness ==
    /\ op = "getLiberties"
    /\ SharedLiberties(board, GroupOf(board, ArgCell)) # {}
    /\ SharedLiberties(board, GroupOf(board, ArgCell))
           # LibertiesOf(board, GroupOf(board, ArgCell))
    /\ ret.lib >= 2

\* what is left of an automated game: three for every empty cell, and the passes still
\* allowed before the second consecutive one
AIRank(b, pc) == 3 * countPieces(b, EMPTY) + 2 - pc

\* C38: in a game of Gomoku or Reversi between automated players of level 1 or 2 every
\* turn puts a stone of the mover on an Empty cell or is a forced pass; the placements
\* never outnumber the cells; every turn brings the game nearer to its end (the empty
\* cells and the passes left decrease); the player to move can always place a stone or
\* is made to pass; and the game is over on a win, a full board or a second consecutive
\* forced pass
C38_AutomatedGameTerminates ==
    [][LET last == moveHistory'[Len(moveHistory')]
       IN  /\ phase = "playing"
           /\ Len(moveHistory') = Len(moveHistory) + 1
           /\ IF last[1] # PassXY
              THEN /\ last \in Cells(board.size)
                   /\ At(board, last) = EMPTY
                   /\ At(board', last) = currentTurn
                   /\ countPieces(board', EMPTY) = countPieces(board, EMPTY) - 1
              ELSE /\ supportsPass(gameType)
                   /\ ~hasValidMove(gameType, board, currentTurn)
                   /\ board' = board
           /\ Placed(moveHistory') <= board.size * board.size
           /\ AIRank(board', passCount') < AIRank(board, passCount)
           /\ AIRank(board', passCount') >= 0
           /\ phase' = "playing" =>
                  \/ supportsPass(gameType)
                  \/ hasValidMove(gameType, board', currentTurn')
           /\ phase' # "playing" =>
                  /\ phase' = "over"
                  /\ \/ countPieces(board', EMPTY) = 0
                     \/ passCount' >= 2
                     \/ /\ gameType = GOMOKU
                        /\ last[1] # PassXY
                        /\ InFiveWindow(board', last, currentTurn)]_vars

\* a Reversi game between automated players that went on after the random opening and
\* ended on the second consecutive forced pass with empty cells left
C38_Witness ==
    /\ gameType = REVERSI
    /\ phase = "over"
    /\ passCount >= 2
    /\ countPieces(board, EMPTY) > 0
    /\ Len(moveHistory) > RandomPlies + 2
    /\ undoStack[1].board = InitBoard(REVERSI, NewBoard(ReversiSize))

====
